---- MODULE Spec2Model ----
(***************************************************************************)
(* A model of the concrete-policy layer and the Taproot compiler of        *)
(* rust-miniscript (src/src/policy/concrete.rs).                           *)
(*                                                                         *)
(* Policies are records [tag, ...] mirroring the variants of enum Policy.  *)
(* u32 / usize quantities that can exceed 2^31-1 (timelocks, Or weights)   *)
(* are kept at full width as pairs <<hi, lo>> in base 2^16.                *)
(* f64 probabilities are modelled as exact rationals <<num, den>> in       *)
(* lowest terms.                                                           *)
(***************************************************************************)
EXTENDS Integers, Sequences, FiniteSets, TLC

VARIABLES
    pol,               \* self: the policy an operation is applied to (NONE if n/a)
    unspendable_key,   \* compile_tr's Option<Pk>: NoKey or a key name
    pc,                \* position of the running operation
    steps,             \* calls performed so far by the running operation, in order
    internal_key,      \* compile_tr: KeyExpr returned by extract_key_new (NONE before)
    policy,            \* compile_tr: pruned policy returned by extract_key_new (NONE before)
    leaf_policy,       \* extract_key_new: the selected candidate leaf (NONE if none)
    visit_order,       \* extract_key_new: the order the HashMap iterated in
    ms,                \* with_huffman_tree: its argument Vec<(OrdF64, Miniscript)>
    node_weights,      \* with_huffman_tree: the BinaryHeap contents
    text,              \* from_str: the string, as a token sequence (NONE if n/a)
    valid,             \* the value returned by is_valid called on pol (NONE before)
    result,            \* the value returned by the operation (NONE while running)
    arg,               \* the argument of the operation besides self (NONE if n/a)
    miniscript,        \* the Miniscript AST the iterators run on (NONE if n/a)
    pk_iter,           \* a PkIter on miniscript: its BaseIter
    pkh_iter,          \* a PkhIter on miniscript: its BaseIter
    pk_pkh_iter,       \* a PkPkhIter on miniscript: its BaseIter
    yielded,           \* per iterator, the values its next() calls returned, in order
    pk_only_ret,       \* the value returned by iter_pk_pkh().pk_only() (NONE before)
    iter               \* an Iter on miniscript: next and path

iterVars == <<miniscript, pk_iter, pkh_iter, pk_pkh_iter, yielded, pk_only_ret, iter>>

vars == <<pol, unspendable_key, pc, steps, internal_key, policy, leaf_policy,
          visit_order, ms, node_weights, text, valid, result, arg, iterVars>>

NONE == [tag |-> "NONE"]
NoKey == "<none>"

\* no iterator exists
NoIterators ==
    /\ miniscript = NONE
    /\ pk_iter = NONE
    /\ pkh_iter = NONE
    /\ pk_pkh_iter = NONE
    /\ yielded = NONE
    /\ pk_only_ret = NONE
    /\ iter = NONE

-----------------------------------------------------------------------------
(* Full-width unsigned numbers: <<hi, lo>> stands for hi * 2^16 + lo.      *)

Base == 2^16

N(i) == <<i \div Base, i % Base>>

WVal(a) == a[1] * Base + a[2]

WLt(a, b) == a[1] < b[1] \/ (a[1] = b[1] /\ a[2] < b[2])

WGt(a, b) == WLt(b, a)

WGe(a, b) == ~WLt(a, b)

WIsZero(a) == a[1] = 0 /\ a[2] = 0

\* 2u32.pow(31)
TwoPow31 == <<32768, 0>>

\* a value fits u32 iff its high limb is below 2^16
FitsU32(a) == a[1] < Base

\* miniscript::limits::LOCKTIME_THRESHOLD = 500_000_000 = 7629 * 2^16 + 25856
LOCKTIME_THRESHOLD == <<7629, 25856>>

\* (t & SEQUENCE_LOCKTIME_TYPE_FLAG) != 0, the flag being 1 << 22: bit 6 of hi
HasTypeFlag(t) == (t[1] \div 64) % 2 = 1

-----------------------------------------------------------------------------
(* Exact rationals for the f64 probabilities.                              *)

RECURSIVE GCD(_, _)
GCD(a, b) == IF b = 0 THEN a ELSE GCD(b, a % b)

Rat(n, d) == LET g == GCD(n, d) IN <<n \div g, d \div g>>

ROne == <<1, 1>>
RZero == <<0, 1>>

\* prob * k as f64 / total as f64
RScale(p, k, total) == Rat(p[1] * k, p[2] * total)

RAdd(p, q) == Rat(p[1] * q[2] + q[1] * p[2], p[2] * q[2])

RLt(p, q) == p[1] * q[2] < q[1] * p[2]

RLe(p, q) == ~RLt(q, p)

-----------------------------------------------------------------------------
(* enum Policy<Pk>                                                         *)

Unsatisfiable == [tag |-> "Unsatisfiable"]
Trivial == [tag |-> "Trivial"]
Key(k) == [tag |-> "Key", pk |-> k]
After(n) == [tag |-> "After", n |-> n]
Older(n) == [tag |-> "Older", n |-> n]
Sha256(h) == [tag |-> "Sha256", h |-> h]
Hash256(h) == [tag |-> "Hash256", h |-> h]
Ripemd160(h) == [tag |-> "Ripemd160", h |-> h]
Hash160(h) == [tag |-> "Hash160", h |-> h]
And(subs) == [tag |-> "And", subs |-> subs]
\* subs is a sequence of pairs <<weight, policy>>
Or(subs) == [tag |-> "Or", subs |-> subs]
Threshold(k, subs) == [tag |-> "Threshold", k |-> k, subs |-> subs]

HashTags == {"Sha256", "Hash256", "Ripemd160", "Hash160"}

\* Result<(), PolicyError> and friends
Ok(v) == [ok |-> TRUE, v |-> v]
Err(e) == [ok |-> FALSE, err |-> e]
OkUnit == Ok("()")

\* generic sequence helpers
RECURSIVE Flatten(_)
Flatten(ss) == IF ss = <<>> THEN <<>> ELSE Head(ss) \o Flatten(Tail(ss))

SeqMap(Op(_), s) == [i \in 1..Len(s) |-> Op(s[i])]

Range(s) == {s[i] : i \in 1..Len(s)}

\* all orders in which the elements of a finite set can be listed
Perms(S) == {s \in [1..Cardinality(S) -> S] : \A i, j \in 1..Cardinality(S) : i # j => s[i] # s[j]}

-----------------------------------------------------------------------------
(* Policy::to_tapleaf_prob_vec                                             *)

\* subs.iter().map(|(ref k, _)| k).sum()
RECURSIVE SumOdds(_)
SumOdds(subs) == IF subs = <<>> THEN 0 ELSE WVal(Head(subs)[1]) + SumOdds(Tail(subs))

RECURSIVE to_tapleaf_prob_vec(_, _)
\* to_tapleaf_prob_vec handing prob undivided to the children of a Threshold
to_tapleaf_prob_vec_undivided(self, prob) ==
    IF self.tag = "Or" THEN
        LET total_odds == SumOdds(self.subs)
        IN  Flatten([i \in 1..Len(self.subs) |->
                to_tapleaf_prob_vec(self.subs[i][2],
                                    RScale(prob, WVal(self.subs[i][1]), total_odds))])
    ELSE IF self.tag = "Threshold" /\ self.k = 1 THEN
        Flatten([i \in 1..Len(self.subs) |-> to_tapleaf_prob_vec(self.subs[i], prob)])
    ELSE <<<<prob, self>>>>

to_tapleaf_prob_vec(self, prob) ==
    IF self.tag = "Or" THEN
        LET total_odds == SumOdds(self.subs)
        IN  Flatten([i \in 1..Len(self.subs) |->
                to_tapleaf_prob_vec(self.subs[i][2],
                                    RScale(prob, WVal(self.subs[i][1]), total_odds))])
    ELSE IF self.tag = "Threshold" /\ self.k = 1 THEN
        LET total_odds == Len(self.subs)
        IN  Flatten([i \in 1..Len(self.subs) |->
                to_tapleaf_prob_vec(self.subs[i], RScale(prob, 1, total_odds))])
    ELSE <<<<prob, self>>>>

is_key(self) == self.tag = "Key"

(* Policy::extract_recursive                                               *)

\* the first k non-empty vectors, concatenated (the filter of the k < n arm)
RECURSIVE FirstNonEmpty(_, _)
FirstNonEmpty(vs, k) ==
    IF vs = <<>> \/ k = 0 THEN <<>>
    ELSE IF Len(Head(vs)) > 0 THEN Head(vs) \o FirstNonEmpty(Tail(vs), k - 1)
    ELSE FirstNonEmpty(Tail(vs), k)

NonEmptyCount(vs) == Cardinality({i \in 1..Len(vs) : Len(vs[i]) > 0})

RECURSIVE extract_recursive(_)
extract_recursive(self) ==
    IF self.tag = "And" THEN
        IF is_key(self.subs[1]) /\ is_key(self.subs[2])
        THEN [i \in 1..Len(self.subs) |-> self.subs[i].pk]
        ELSE <<>>
    ELSE IF self.tag = "Threshold" /\ self.k = Len(self.subs) THEN
        LET vs == [i \in 1..Len(self.subs) |-> extract_recursive(self.subs[i])]
            all_non_empty == \A i \in 1..Len(vs) : Len(vs[i]) > 0
        IN  IF all_non_empty THEN Flatten(vs) ELSE <<>>
    ELSE IF self.tag = "Threshold" THEN
        LET vs == [i \in 1..Len(self.subs) |-> extract_recursive(self.subs[i])]
            valid_policies == NonEmptyCount(vs)
        IN  IF valid_policies >= self.k THEN FirstNonEmpty(vs, self.k) ELSE <<>>
    ELSE IF self.tag = "Or" THEN
        LET left_key_vec == extract_recursive(self.subs[1][2])
            right_key_vec == extract_recursive(self.subs[2][2])
        IN  IF WGt(self.subs[1][1], self.subs[2][1]) THEN
                IF Len(left_key_vec) = 0 THEN right_key_vec ELSE left_key_vec
            ELSE IF WLt(self.subs[1][1], self.subs[2][1]) THEN
                IF Len(right_key_vec) = 0 THEN left_key_vec ELSE right_key_vec
            ELSE IF Len(left_key_vec) = 0 THEN right_key_vec
            ELSE IF Len(right_key_vec) = 0 THEN left_key_vec
            ELSE IF Len(left_key_vec) < Len(right_key_vec) THEN left_key_vec
            ELSE right_key_vec
    ELSE IF self.tag = "Key" THEN <<self.pk>>
    ELSE <<>>

(* Policy::translate_unsatisfiable_policy                                  *)

RECURSIVE translate_unsatisfiable_policy(_, _)
\* translate_unsatisfiable_policy descending through Or alone
translate_unsatisfiable_policy_or_only(self, p) ==
    IF self = p THEN
        IF p.tag = "Threshold" /\ p.k # Len(p.subs) THEN p ELSE Unsatisfiable
    ELSE IF self.tag = "Or" THEN
        Or([i \in 1..Len(self.subs) |->
              <<self.subs[i][1], translate_unsatisfiable_policy(self.subs[i][2], p)>>])
    ELSE self

translate_unsatisfiable_policy(self, p) ==
    IF self = p THEN
        IF p.tag = "Threshold" /\ p.k # Len(p.subs) THEN p ELSE Unsatisfiable
    ELSE IF self.tag = "Or" THEN
        Or([i \in 1..Len(self.subs) |->
              <<self.subs[i][1], translate_unsatisfiable_policy(self.subs[i][2], p)>>])
    ELSE IF self.tag = "Threshold" /\ self.k = 1 THEN
        Threshold(self.k, [i \in 1..Len(self.subs) |->
              translate_unsatisfiable_policy(self.subs[i], p)])
    ELSE self

(* Policy::keys                                                            *)

RECURSIVE keys(_)
keys(self) ==
    IF self.tag = "Key" THEN <<self.pk>>
    ELSE IF self.tag \in {"Threshold", "And"} THEN
        Flatten([i \in 1..Len(self.subs) |-> keys(self.subs[i])])
    ELSE IF self.tag = "Or" THEN
        Flatten([i \in 1..Len(self.subs) |-> keys(self.subs[i][2])])
    ELSE <<>>

(* Policy::check_duplicate_keys                                            *)

check_duplicate_keys(self) ==
    LET pks == keys(self)
        pks_len == Len(pks)
        unique_pks_len == Cardinality(Range(pks))
    IN  IF pks_len > unique_pks_len THEN Err("DuplicatePubKeys") ELSE OkUnit

-----------------------------------------------------------------------------
(* TimelockInfo and Policy::check_timelocks                                *)

TimelockInfo(csv_h, csv_t, cltv_h, cltv_t, comb) ==
    [csv_with_height |-> csv_h, csv_with_time |-> csv_t,
     cltv_with_height |-> cltv_h, cltv_with_time |-> cltv_t,
     contains_combination |-> comb]

TimelockDefault == TimelockInfo(FALSE, FALSE, FALSE, FALSE, FALSE)

\* TimelockInfo::combine_threshold(k, iter): the children's flags are or-ed
\* together; when k >= 2, a height lock in one child meeting a time lock of
\* the same kind (CSV or CLTV) in another child is a combination.
RECURSIVE CombineFold(_, _, _)
CombineFold(k, acc, ts) ==
    IF ts = <<>> THEN acc
    ELSE LET t == Head(ts)
             height_and_time ==
                 /\ k >= 2
                 /\ \/ acc.csv_with_height /\ t.csv_with_time
                    \/ acc.csv_with_time /\ t.csv_with_height
                    \/ acc.cltv_with_time /\ t.cltv_with_height
                    \/ acc.cltv_with_height /\ t.cltv_with_time
         IN  CombineFold(k,
                 TimelockInfo(acc.csv_with_height \/ t.csv_with_height,
                              acc.csv_with_time \/ t.csv_with_time,
                              acc.cltv_with_height \/ t.cltv_with_height,
                              acc.cltv_with_time \/ t.cltv_with_time,
                              acc.contains_combination \/ height_and_time
                                  \/ t.contains_combination),
                 Tail(ts))

combine_threshold(k, ts) == CombineFold(k, TimelockDefault, ts)

\* the Policy::After(t) arm
AfterInfo(t) ==
    TimelockInfo(FALSE, FALSE, WLt(t, LOCKTIME_THRESHOLD), WGe(t, LOCKTIME_THRESHOLD), FALSE)

\* OlderInfo with the type flag never found set
OlderInfoNoFlag(t) == TimelockInfo(TRUE, FALSE, FALSE, FALSE, FALSE)

\* the Policy::Older(t) arm
OlderInfo(t) == TimelockInfo(~HasTypeFlag(t), HasTypeFlag(t), FALSE, FALSE, FALSE)

RECURSIVE check_timelocks_helper(_)
\* check_timelocks_helper combining the children of every node as an And does
check_timelocks_helper_all_of(self) ==
    IF self.tag = "After" THEN AfterInfo(self.n)
    ELSE IF self.tag = "Older" THEN OlderInfo(self.n)
    ELSE IF self.tag \in {"Threshold", "And"} THEN
        combine_threshold(Len(self.subs),
            [i \in 1..Len(self.subs) |-> check_timelocks_helper(self.subs[i])])
    ELSE IF self.tag = "Or" THEN
        combine_threshold(Len(self.subs),
            [i \in 1..Len(self.subs) |-> check_timelocks_helper(self.subs[i][2])])
    ELSE TimelockDefault

check_timelocks_helper(self) ==
    IF self.tag = "After" THEN AfterInfo(self.n)
    ELSE IF self.tag = "Older" THEN OlderInfo(self.n)
    ELSE IF self.tag = "Threshold" THEN
        combine_threshold(self.k,
            [i \in 1..Len(self.subs) |-> check_timelocks_helper(self.subs[i])])
    ELSE IF self.tag = "And" THEN
        combine_threshold(Len(self.subs),
            [i \in 1..Len(self.subs) |-> check_timelocks_helper(self.subs[i])])
    ELSE IF self.tag = "Or" THEN
        combine_threshold(1,
            [i \in 1..Len(self.subs) |-> check_timelocks_helper(self.subs[i][2])])
    ELSE TimelockDefault

check_timelocks(self) ==
    IF check_timelocks_helper(self).contains_combination
    THEN Err("HeightTimelockCombination")
    ELSE OkUnit

-----------------------------------------------------------------------------
(* Policy::is_valid                                                        *)

\* .collect::<Result<Vec<()>, PolicyError>>()?  -- the first error, in order
RECURSIVE FirstErr(_)
FirstErr(rs) ==
    IF rs = <<>> THEN OkUnit
    ELSE IF ~Head(rs).ok THEN Head(rs)
    ELSE FirstErr(Tail(rs))

\* the After(n) | Older(n) arm of is_valid
ValidTime(n) ==
    IF WIsZero(n) THEN Err("ZeroTime")
    ELSE IF WGt(n, TwoPow31) THEN Err("TimeTooFar")
    ELSE OkUnit

\* is_valid without the descent into the sub-policies
is_valid_shallow(self) ==
    IF ~check_timelocks(self).ok THEN check_timelocks(self)
    ELSE IF ~check_duplicate_keys(self).ok THEN check_duplicate_keys(self)
    ELSE IF self.tag = "And" THEN
        IF Len(self.subs) # 2 THEN Err("NonBinaryArgAnd") ELSE OkUnit
    ELSE IF self.tag = "Or" THEN
        IF Len(self.subs) # 2 THEN Err("NonBinaryArgOr") ELSE OkUnit
    ELSE IF self.tag = "Threshold" THEN
        IF self.k = 0 \/ self.k > Len(self.subs) THEN Err("IncorrectThresh") ELSE OkUnit
    ELSE IF self.tag \in {"After", "Older"} THEN ValidTime(self.n)
    ELSE OkUnit

RECURSIVE is_valid(_)
is_valid(self) ==
    IF ~check_timelocks(self).ok THEN check_timelocks(self)
    ELSE IF ~check_duplicate_keys(self).ok THEN check_duplicate_keys(self)
    ELSE IF self.tag = "And" THEN
        IF Len(self.subs) # 2 THEN Err("NonBinaryArgAnd")
        ELSE FirstErr([i \in 1..Len(self.subs) |-> is_valid(self.subs[i])])
    ELSE IF self.tag = "Or" THEN
        IF Len(self.subs) # 2 THEN Err("NonBinaryArgOr")
        ELSE FirstErr([i \in 1..Len(self.subs) |-> is_valid(self.subs[i][2])])
    ELSE IF self.tag = "Threshold" THEN
        IF self.k = 0 \/ self.k > Len(self.subs) THEN Err("IncorrectThresh")
        ELSE FirstErr([i \in 1..Len(self.subs) |-> is_valid(self.subs[i])])
    ELSE IF self.tag \in {"After", "Older"} THEN ValidTime(self.n)
    ELSE OkUnit

(* Policy::is_safe_nonmalleable: the pair <<safe, non_malleable>>          *)

Count(bs) == Cardinality({i \in 1..Len(bs) : bs[i]})

\* a >= b in usize, for a count a and a difference b of lengths and
\* thresholds: an integer b < 0 stands for the wrapped value 2^64 + b, which
\* no count reaches
UGe(a, b) == b >= 0 /\ a >= b

\* the subtraction subs.len() - k overflows at some Threshold of the policy
RECURSIVE SubOverflows(_)
SubOverflows(self) ==
    IF self.tag = "Threshold" THEN
        \/ self.k > Len(self.subs)
        \/ \E i \in 1..Len(self.subs) : SubOverflows(self.subs[i])
    ELSE IF self.tag = "And" THEN \E i \in 1..Len(self.subs) : SubOverflows(self.subs[i])
    ELSE IF self.tag = "Or" THEN \E i \in 1..Len(self.subs) : SubOverflows(self.subs[i][2])
    ELSE FALSE

\* is_safe_nonmalleable below is the value of a build without overflow
\* checks, in which usize arithmetic wraps; a build with overflow checks
\* panics when SubOverflows holds
RECURSIVE is_safe_nonmalleable(_)
\* is_safe_nonmalleable taking a timelock of value 0 for Trivial
is_safe_nonmalleable_zero_lock(self) ==
    IF self.tag \in {"Unsatisfiable", "Trivial", "Key"} THEN <<TRUE, TRUE>>
    ELSE IF self.tag \in {"After", "Older"} /\ WIsZero(self.n) THEN <<TRUE, TRUE>>
    ELSE IF self.tag \in HashTags \cup {"After", "Older"} THEN <<FALSE, TRUE>>
    ELSE IF self.tag = "Threshold" THEN
        LET rs == [i \in 1..Len(self.subs) |-> is_safe_nonmalleable(self.subs[i])]
            safe_count == Count([i \in 1..Len(rs) |-> rs[i][1]])
            non_mall_count == Count([i \in 1..Len(rs) |-> rs[i][2]])
        IN  <<UGe(safe_count, Len(self.subs) - self.k + 1),
              non_mall_count = Len(self.subs) /\ UGe(safe_count, Len(self.subs) - self.k)>>
    ELSE IF self.tag = "And" THEN
        LET rs == [i \in 1..Len(self.subs) |-> is_safe_nonmalleable(self.subs[i])]
        IN  <<\E i \in 1..Len(rs) : rs[i][1], \A i \in 1..Len(rs) : rs[i][2]>>
    ELSE
        LET rs == [i \in 1..Len(self.subs) |-> is_safe_nonmalleable(self.subs[i][2])]
            all_safe == \A i \in 1..Len(rs) : rs[i][1]
            atleast_one_safe == \E i \in 1..Len(rs) : rs[i][1]
            all_non_mall == \A i \in 1..Len(rs) : rs[i][2]
        IN  <<all_safe, atleast_one_safe /\ all_non_mall>>

is_safe_nonmalleable(self) ==
    IF self.tag \in {"Unsatisfiable", "Trivial", "Key"} THEN <<TRUE, TRUE>>
    ELSE IF self.tag \in HashTags \cup {"After", "Older"} THEN <<FALSE, TRUE>>
    ELSE IF self.tag = "Threshold" THEN
        LET rs == [i \in 1..Len(self.subs) |-> is_safe_nonmalleable(self.subs[i])]
            safe_count == Count([i \in 1..Len(rs) |-> rs[i][1]])
            non_mall_count == Count([i \in 1..Len(rs) |-> rs[i][2]])
        IN  <<UGe(safe_count, Len(self.subs) - self.k + 1),
              non_mall_count = Len(self.subs) /\ UGe(safe_count, Len(self.subs) - self.k)>>
    ELSE IF self.tag = "And" THEN
        LET rs == [i \in 1..Len(self.subs) |-> is_safe_nonmalleable(self.subs[i])]
        IN  <<\E i \in 1..Len(rs) : rs[i][1], \A i \in 1..Len(rs) : rs[i][2]>>
    ELSE
        LET rs == [i \in 1..Len(self.subs) |-> is_safe_nonmalleable(self.subs[i][2])]
            all_safe == \A i \in 1..Len(rs) : rs[i][1]
            atleast_one_safe == \E i \in 1..Len(rs) : rs[i][1]
            all_non_mall == \A i \in 1..Len(rs) : rs[i][2]
        IN  <<all_safe, atleast_one_safe /\ all_non_mall>>

-----------------------------------------------------------------------------
(* Strings.  A string is the sequence of its lexical pieces: names, decimal *)
(* numbers (kept by value), and the four characters ( ) , @                *)

Id(str) == [t |-> "id", s |-> str]
Num(n) == [t |-> "num", n |-> n]
LP == [t |-> "("]
RP == [t |-> ")"]
Comma == [t |-> ","]
At == [t |-> "@"]

\* s0 "," s1 "," ... for a sequence of strings
RECURSIVE JoinComma(_)
JoinComma(ss) ==
    IF ss = <<>> THEN <<>>
    ELSE IF Len(ss) = 1 THEN ss[1]
    ELSE ss[1] \o <<Comma>> \o JoinComma(Tail(ss))

\* "," s for every s of a sequence of strings
RECURSIVE EachWithComma(_)
EachWithComma(ss) ==
    IF ss = <<>> THEN <<>> ELSE <<Comma>> \o Head(ss) \o EachWithComma(Tail(ss))

(* impl fmt::Display for Policy                                            *)

RECURSIVE Display(_)
Display(self) ==
    IF self.tag = "Unsatisfiable" THEN <<Id("UNSATISFIABLE")>>
    ELSE IF self.tag = "Trivial" THEN <<Id("TRIVIAL")>>
    ELSE IF self.tag = "Key" THEN <<Id("pk"), LP, Id(self.pk), RP>>
    ELSE IF self.tag = "After" THEN <<Id("after"), LP, Num(self.n), RP>>
    ELSE IF self.tag = "Older" THEN <<Id("older"), LP, Num(self.n), RP>>
    ELSE IF self.tag = "Sha256" THEN <<Id("sha256"), LP, Id(self.h), RP>>
    ELSE IF self.tag = "Hash256" THEN <<Id("hash256"), LP, Id(self.h), RP>>
    ELSE IF self.tag = "Ripemd160" THEN <<Id("ripemd160"), LP, Id(self.h), RP>>
    ELSE IF self.tag = "Hash160" THEN <<Id("hash160"), LP, Id(self.h), RP>>
    ELSE IF self.tag = "And" THEN
        <<Id("and"), LP>>
        \o JoinComma([i \in 1..Len(self.subs) |-> Display(self.subs[i])])
        \o <<RP>>
    ELSE IF self.tag = "Or" THEN
        <<Id("or"), LP>>
        \o JoinComma([i \in 1..Len(self.subs) |->
               <<Num(self.subs[i][1]), At>> \o Display(self.subs[i][2])])
        \o <<RP>>
    ELSE
        <<Id("thresh"), LP, Num(N(self.k))>>
        \o EachWithComma([i \in 1..Len(self.subs) |-> Display(self.subs[i])])
        \o <<RP>>

(* expression::Tree::from_str: name(arg,...) into [name, args]             *)

ExprTree(name, args) == [name |-> name, args |-> args]

\* the first position from i on that holds one of ( ) , or the end of the string
RECURSIVE NameEnd(_, _)
NameEnd(toks, i) ==
    IF i > Len(toks) \/ toks[i] \in {LP, RP, Comma} THEN i ELSE NameEnd(toks, i + 1)

RECURSIVE TreeFromSlice(_, _), TreeArgs(_, _, _)
TreeFromSlice(toks, i) ==
    LET j == NameEnd(toks, i)
        name == SubSeq(toks, i, j - 1)
    IN  IF j <= Len(toks) /\ toks[j] = LP THEN
            LET r == TreeArgs(toks, j + 1, <<>>) IN
            IF r.ok THEN [ok |-> TRUE, tree |-> ExprTree(name, r.args), next |-> r.next]
            ELSE r
        ELSE [ok |-> TRUE, tree |-> ExprTree(name, <<>>), next |-> j]

TreeArgs(toks, i, acc) ==
    LET r == TreeFromSlice(toks, i) IN
    IF ~r.ok THEN r
    ELSE IF r.next > Len(toks) THEN Err("ExpectedChar")
    ELSE IF toks[r.next] = Comma THEN TreeArgs(toks, r.next + 1, Append(acc, r.tree))
    ELSE IF toks[r.next] = RP
        THEN [ok |-> TRUE, args |-> Append(acc, r.tree), next |-> r.next + 1]
    ELSE Err("Unexpected")

TreeFromStr(toks) ==
    LET r == TreeFromSlice(toks, 1) IN
    IF ~r.ok THEN r
    ELSE IF r.next <= Len(toks) THEN Err("Unexpected")
    ELSE Ok(r.tree)

\* top.name.split('@')
RECURSIVE SplitAt(_)
SplitAt(name) ==
    IF \E i \in 1..Len(name) : name[i] = At THEN
        LET i == CHOOSE i \in 1..Len(name) :
                     name[i] = At /\ \A j \in 1..(i - 1) : name[j] # At
        IN  <<SubSeq(name, 1, i - 1)>> \o SplitAt(SubSeq(name, i + 1, Len(name)))
    ELSE <<name>>

\* expression::parse_num: the string is one decimal number that fits u32
parse_num(name) ==
    IF Len(name) = 1 /\ name[1].t = "num" /\ FitsU32(name[1].n)
    THEN Ok(name[1].n)
    ELSE Err("ParseNum")

\* expression::terminal(term, convert): term has no arguments
terminal_num(term) ==
    IF term.args = <<>> THEN parse_num(term.name) ELSE Err("Unexpected")

\* expression::terminal with Pk::from_str / the hash types' from_str
terminal_str(term) ==
    IF term.args = <<>> /\ Len(term.name) = 1 /\ term.name[1].t = "id"
    THEN Ok(term.name[1].s)
    ELSE Err("Unexpected")

\* the fragment name as a string ("" when it is not a plain name)
NameOf(frag_name) ==
    IF Len(frag_name) = 1 /\ frag_name[1].t = "id" THEN frag_name[1].s ELSE ""

(* Policy::from_tree_prob and Policy::from_tree                            *)

\* the after / older arms: range test on the parsed number
ParsedTime(num) ==
    IF WGt(num, TwoPow31) THEN Err("TimeTooFar")
    ELSE IF WIsZero(num) THEN Err("ZeroTime")
    ELSE OkUnit

\* mutant of ThreshRejected: k == n rejected as well
ThreshRejectedStrict(thresh, nsubs) == WGe(thresh, N(nsubs - 1)) \/ WIsZero(thresh)

\* thresh >= nsubs || thresh == 0, nsubs being top.args.len()
ThreshRejected(thresh, nsubs) == WGe(thresh, N(nsubs)) \/ WIsZero(thresh)

\* Ok of all values, or the first error
AllOk(rs) ==
    IF \A i \in 1..Len(rs) : rs[i].ok
    THEN Ok([i \in 1..Len(rs) |-> rs[i].v])
    ELSE rs[CHOOSE i \in 1..Len(rs) : ~rs[i].ok /\ \A j \in 1..(i - 1) : rs[j].ok]

HashCtor(name, h) ==
    IF name = "sha256" THEN Sha256(h)
    ELSE IF name = "hash256" THEN Hash256(h)
    ELSE IF name = "ripemd160" THEN Ripemd160(h)
    ELSE Hash160(h)

RECURSIVE from_tree_prob(_, _)
\* the second match of from_tree_prob: the policy for (frag_name, top.args)
FragPolicy(frag, top) ==
    LET nargs == Len(top.args) IN
    IF frag = "UNSATISFIABLE" /\ nargs = 0 THEN Ok(Unsatisfiable)
    ELSE IF frag = "TRIVIAL" /\ nargs = 0 THEN Ok(Trivial)
    ELSE IF frag = "pk" /\ nargs = 1 THEN
        LET r == terminal_str(top.args[1]) IN IF r.ok THEN Ok(Key(r.v)) ELSE r
    ELSE IF frag \in {"after", "older"} /\ nargs = 1 THEN
        LET r == terminal_num(top.args[1]) IN
        IF ~r.ok THEN r
        ELSE IF ~ParsedTime(r.v).ok THEN ParsedTime(r.v)
        ELSE IF frag = "after" THEN Ok(After(r.v)) ELSE Ok(Older(r.v))
    ELSE IF frag \in {"sha256", "hash256", "ripemd160", "hash160"} /\ nargs = 1 THEN
        LET r == terminal_str(top.args[1]) IN
        IF r.ok THEN Ok(HashCtor(frag, r.v)) ELSE r
    ELSE IF frag = "and" THEN
        IF nargs # 2 THEN Err("NonBinaryArgAnd")
        ELSE LET rs == AllOk([i \in 1..nargs |-> from_tree_prob(top.args[i], FALSE)])
             IN  IF rs.ok THEN Ok(And([i \in 1..nargs |-> rs.v[i][2]])) ELSE rs
    ELSE IF frag = "or" THEN
        IF nargs # 2 THEN Err("NonBinaryArgOr")
        ELSE LET rs == AllOk([i \in 1..nargs |-> from_tree_prob(top.args[i], TRUE)])
             IN  IF rs.ok THEN Ok(Or(rs.v)) ELSE rs
    ELSE IF frag = "thresh" THEN
        IF nargs = 0 \/ top.args[1].args # <<>> THEN Err("IncorrectThresh")
        ELSE LET thresh == parse_num(top.args[1].name) IN
             IF ~thresh.ok THEN thresh
             ELSE IF ThreshRejected(thresh.v, nargs) THEN Err("IncorrectThresh")
             ELSE LET rs == AllOk([i \in 1..(nargs - 1) |->
                                      from_tree_prob(top.args[i + 1], FALSE)])
                  IN  IF rs.ok
                      THEN Ok(Threshold(WVal(thresh.v),
                                        [i \in 1..(nargs - 1) |-> rs.v[i][2]]))
                      ELSE rs
    ELSE Err("Unexpected")

from_tree_prob(top, allow_prob) ==
    LET pieces == SplitAt(top.name) IN
    IF Len(pieces) >= 3 THEN Err("MultiColon")
    ELSE IF Len(pieces) = 2 /\ ~allow_prob THEN Err("AtOutsideOr")
    ELSE IF Len(pieces) = 2 /\ ~parse_num(pieces[1]).ok THEN parse_num(pieces[1])
    ELSE LET frag_prob == IF Len(pieces) = 2 THEN parse_num(pieces[1]).v ELSE N(1)
             frag_name == pieces[Len(pieces)]
             res == FragPolicy(NameOf(frag_name), top)
         IN  IF res.ok THEN Ok(<<frag_prob, res.v>>) ELSE res

from_tree(top) ==
    LET r == from_tree_prob(top, FALSE) IN IF r.ok THEN Ok(r.v[2]) ELSE r

\* mutant of from_str: check_duplicate_keys is run on the built tree as well
from_str_checking_duplicates(str) ==
    LET tree == TreeFromStr(str) IN
    IF ~tree.ok THEN tree
    ELSE LET p == from_tree(tree.v) IN
         IF ~p.ok THEN p
         ELSE IF ~check_timelocks(p.v).ok THEN check_timelocks(p.v)
         ELSE IF ~check_duplicate_keys(p.v).ok THEN check_duplicate_keys(p.v)
         ELSE Ok(p.v)

(* Policy::from_str (every piece of a modelled string is printable)        *)
from_str(str) ==
    LET tree == TreeFromStr(str) IN
    IF ~tree.ok THEN tree
    ELSE LET p == from_tree(tree.v) IN
         IF ~p.ok THEN p
         ELSE IF ~check_timelocks(p.v).ok THEN check_timelocks(p.v)
         ELSE Ok(p.v)

-----------------------------------------------------------------------------
(* KeyExpr, Miniscript leaves, TapTree, Descriptor::Tr                      *)

SingleKey(k) == [tag |-> "SingleKey", pk |-> k]
MuSig(ks) == [tag |-> "MuSig", keys |-> ks]

\* compiler::best_compilation::<Pk, Tap>(&pol): the miniscript of a leaf policy
Compile(p) == [tag |-> "Miniscript", of |-> p]

Leaf(m) == [tag |-> "Leaf", ms |-> m]
Tree(l, r) == [tag |-> "Tree", left |-> l, right |-> r]

NoTree == [tag |-> "None"]
\* Descriptor::new_tr(internal_key, Option<TapTree>)
Tr(ik, tree) == [tag |-> "Tr", internal_key |-> ik, tree |-> tree]

-----------------------------------------------------------------------------
(* Policy::extract_key_new                                                 *)

IsCandidate(p) == p.tag \in {"Threshold", "Key", "And"}

\* the (prob, pol) pairs that pass the filter, in leaf order
Candidates(self) ==
    SelectSeq(to_tapleaf_prob_vec(self, ROne), LAMBDA e : IsCandidate(e[2]))

\* policy_prob_map: collecting into the HashMap keeps, for a policy that
\* occurs more than once, the probability inserted last
MapKeys(cands) == {cands[i][2] : i \in 1..Len(cands)}

MapProb(cands, p) ==
    LET last == CHOOSE i \in 1..Len(cands) :
                    /\ cands[i][2] = p
                    /\ \A j \in 1..Len(cands) : cands[j][2] = p => j <= i
    IN  cands[last][1]

LoopInit == [policy_prob |-> RZero, has_key |-> FALSE, key_vec |-> <<>>,
             leaf_policy |-> Unsatisfiable]

\* one iteration of `for (pol, prob) in policy_prob_map`
LoopBody(st, p, prob) ==
    LET key_vec == extract_recursive(p) IN
    IF RLt(st.policy_prob, prob) THEN
        IF Len(key_vec) > 0
        THEN [policy_prob |-> prob, has_key |-> TRUE, key_vec |-> key_vec,
              leaf_policy |-> p]
        ELSE st
    ELSE IF st.policy_prob = prob THEN
        IF st.has_key THEN
            IF Len(key_vec) < Len(st.key_vec)
            THEN [st EXCEPT !.key_vec = key_vec, !.leaf_policy = p]
            ELSE st
        ELSE IF Len(key_vec) > 0
            THEN [st EXCEPT !.has_key = TRUE, !.key_vec = key_vec, !.leaf_policy = p]
            ELSE st
    ELSE st

RECURSIVE LoopFrom(_, _, _)
LoopFrom(st, cands, order) ==
    IF order = <<>> THEN st
    ELSE LoopFrom(LoopBody(st, Head(order), MapProb(cands, Head(order))),
                  cands, Tail(order))

\* the selection loop, the HashMap being iterated in the order `order`
SelectLoop(self, order) == LoopFrom(LoopInit, Candidates(self), order)

\* extract_key_new whose fallback arm always returns the fallback key
extract_key_new_unspendable_only(self, unspendable, order) ==
    LET st == SelectLoop(self, order) IN
    IF st.has_key THEN
        Ok(<<MuSig([i \in 1..Len(st.key_vec) |-> SingleKey(st.key_vec[i])]),
             translate_unsatisfiable_policy(self, st.leaf_policy)>>)
    ELSE IF unspendable # NoKey THEN Ok(<<SingleKey(unspendable), self>>)
    ELSE Err("No viable internal key found.")

extract_key_new(self, unspendable, order) ==
    LET st == SelectLoop(self, order) IN
    IF st.has_key THEN
        Ok(<<MuSig([i \in 1..Len(st.key_vec) |-> SingleKey(st.key_vec[i])]),
             translate_unsatisfiable_policy(self, st.leaf_policy)>>)
    ELSE IF unspendable # NoKey THEN
        LET all_keys == keys(self) IN
        IF Len(all_keys) > 0
        THEN Ok(<<MuSig([i \in 1..Len(all_keys) |-> SingleKey(all_keys[i])]), self>>)
        ELSE Ok(<<SingleKey(unspendable), self>>)
    ELSE Err("No viable internal key found.")

-----------------------------------------------------------------------------
(* with_huffman_tree                                                       *)

RemoveAt(s, i) == SubSeq(s, 1, i - 1) \o SubSeq(s, i + 1, Len(s))

\* mutant of PopChoices: the heap pops an entry of greatest probability
PopChoicesMax(h) == {i \in 1..Len(h) : \A j \in 1..Len(h) : RLe(h[j][1], h[i][1])}

\* indices BinaryHeap::pop may return: an entry of least probability
\* (Reverse<OrdF64> first); entries of equal probability are ordered by the
\* TapTree they carry, which the model leaves open
PopChoices(h) == {i \in 1..Len(h) : \A j \in 1..Len(h) : RLe(h[i][1], h[j][1])}

\* for (prob, script) in ms { node_weights.push(...) } and the emptiness test
HuffPush ==
    /\ pc = "with_huffman_tree"
    /\ steps' = Append(steps, "with_huffman_tree")
    /\ node_weights' = [i \in 1..Len(ms) |-> <<ms[i][1], Leaf(ms[i][2])>>]
    /\ IF Len(ms) = 0
       THEN /\ result' = Err("Empty Miniscript compilation")
            /\ pc' = "huffman_returned"
       ELSE /\ result' = result
            /\ pc' = "huffman_loop"
    /\ UNCHANGED <<arg, iterVars>>
    /\ UNCHANGED <<pol, unspendable_key, internal_key, policy, leaf_policy,
                   visit_order, ms, text, valid>>

\* one iteration of `while node_weights.len() > 1`
HuffStep ==
    /\ pc = "huffman_loop"
    /\ Len(node_weights) > 1
    /\ \E i \in PopChoices(node_weights) :
         LET e1 == node_weights[i]
             rest == RemoveAt(node_weights, i)
         IN  \E j \in PopChoices(rest) :
               LET e2 == rest[j]
                   p == RAdd(e1[1], e2[1])
               IN  node_weights' = Append(RemoveAt(rest, j), <<p, Tree(e1[2], e2[2])>>)
    /\ UNCHANGED <<arg, iterVars>>
    /\ UNCHANGED <<pol, unspendable_key, pc, steps, internal_key, policy, leaf_policy,
                   visit_order, ms, text, valid, result>>

\* the final pop: Ok(node)
HuffReturn ==
    /\ pc = "huffman_loop"
    /\ Len(node_weights) = 1
    /\ result' = Ok(node_weights[1][2])
    /\ node_weights' = <<>>
    /\ pc' = "huffman_returned"
    /\ UNCHANGED <<arg, iterVars>>
    /\ UNCHANGED <<pol, unspendable_key, steps, internal_key, policy, leaf_policy,
                   visit_order, ms, text, valid>>

-----------------------------------------------------------------------------
(* Policy::compile_tr, one action per call it makes                        *)

\* self.is_valid()?
CompileIsValid ==
    /\ pc = "compile_tr"
    /\ steps' = Append(steps, "is_valid")
    /\ IF is_valid(pol).ok
       THEN pc' = "is_safe_nonmalleable" /\ result' = result
       ELSE pc' = "done" /\ result' = is_valid(pol)
    /\ UNCHANGED <<arg, iterVars>>
    /\ UNCHANGED <<pol, unspendable_key, internal_key, policy, leaf_policy,
                   visit_order, ms, node_weights, text, valid>>

\* mutant of SafeGate: the two match arms swapped
SafeGateSwapped(self) ==
    LET sn == is_safe_nonmalleable(self) IN
    IF ~sn[2] THEN Err("ImpossibleNonMalleableCompilation")
    ELSE IF ~sn[1] THEN Err("TopLevelNonSafe")
    ELSE OkUnit

\* match self.is_safe_nonmalleable() { (false, _) => .., (_, false) => .., _ => .. }
SafeGate(self) ==
    LET sn == is_safe_nonmalleable(self) IN
    IF ~sn[1] THEN Err("TopLevelNonSafe")
    ELSE IF ~sn[2] THEN Err("ImpossibleNonMalleableCompilation")
    ELSE OkUnit

CompileSafe ==
    /\ pc = "is_safe_nonmalleable"
    /\ steps' = Append(steps, "is_safe_nonmalleable")
    /\ IF SafeGate(pol).ok
       THEN pc' = "extract_key_new" /\ result' = result
       ELSE pc' = "done" /\ result' = SafeGate(pol)
    /\ UNCHANGED <<arg, iterVars>>
    /\ UNCHANGED <<pol, unspendable_key, internal_key, policy, leaf_policy,
                   visit_order, ms, node_weights, text, valid>>

\* let (internal_key, policy) = self.clone().extract_key_new(unspendable_key)?
CompileExtract ==
    /\ pc = "extract_key_new"
    /\ steps' = Append(steps, "extract_key_new")
    /\ \E order \in Perms(MapKeys(Candidates(pol))) :
         LET r == extract_key_new(pol, unspendable_key, order)
             st == SelectLoop(pol, order)
         IN  /\ visit_order' = order
             /\ leaf_policy' = IF st.has_key THEN st.leaf_policy ELSE NONE
             /\ IF r.ok
                THEN /\ internal_key' = r.v[1]
                     /\ policy' = r.v[2]
                     /\ pc' = "leaf_compilations"
                     /\ result' = result
                ELSE /\ UNCHANGED <<internal_key, policy>>
                     /\ pc' = "done"
                     /\ result' = r
    /\ UNCHANGED <<arg, iterVars>>
    /\ UNCHANGED <<pol, unspendable_key, ms, node_weights, text, valid>>

\* the loop over policy.to_tapleaf_prob_vec(1.0) that fills leaf_compilations
LeafCompilations(p) ==
    LET vec_policies == to_tapleaf_prob_vec(p, ROne)
        kept == SelectSeq(vec_policies, LAMBDA e : e[2] # Unsatisfiable)
    IN  [i \in 1..Len(kept) |-> <<kept[i][1], Compile(kept[i][2])>>]

CompileLeaves ==
    /\ pc = "leaf_compilations"
    /\ IF policy = Trivial
       THEN /\ result' = Ok(Tr(internal_key, NoTree))
            /\ pc' = "done"
            /\ UNCHANGED <<ms, steps>>
       ELSE /\ ms' = LeafCompilations(policy)
            /\ steps' = Append(steps, "best_compilation")
            /\ pc' = "with_huffman_tree"
            /\ result' = result
    /\ UNCHANGED <<arg, iterVars>>
    /\ UNCHANGED <<pol, unspendable_key, internal_key, policy, leaf_policy,
                   visit_order, node_weights, text, valid>>

\* let taptree = with_huffman_tree(leaf_compilations)?; Descriptor::new_tr(..)
CompileNewTr ==
    /\ pc = "huffman_returned"
    /\ pc' = "done"
    /\ result' = IF result.ok THEN Ok(Tr(internal_key, result.v)) ELSE result
    /\ UNCHANGED <<arg, iterVars>>
    /\ UNCHANGED <<pol, unspendable_key, steps, internal_key, policy, leaf_policy,
                   visit_order, ms, node_weights, text, valid>>

-----------------------------------------------------------------------------
(* Inputs of the Taproot compiler                                          *)

MaxWeight == 2
MaxThreshArity == 3

KeyNames == {"A", "B", "C"}

LeafPols == {Key(k) : k \in KeyNames} \cup {Older(N(9)), Sha256("H")}

Weights == {N(w) : w \in 1..MaxWeight}

\* binary nodes over S, every Or carrying the weights 1@ and 1@
SmallNodes(S) ==
    {And(<<a, b>>) : a \in S, b \in S}
    \cup {Or(<<<<N(1), a>>, <<N(1), b>>>>) : a \in S, b \in S}
    \cup {Threshold(k, <<a, b>>) : k \in 1..2, a \in S, b \in S}

\* nodes over S with every weight and thresholds up to MaxThreshArity children
WideNodes(S) ==
    {Or(<<<<w1, a>>, <<w2, b>>>>) : w1 \in Weights, w2 \in Weights, a \in S, b \in S}
    \cup UNION {{Threshold(k, subs) : k \in 1..n, subs \in [1..n -> S]} :
                n \in 3..MaxThreshArity}

\* a node over one inner node and one leaf, in either order
Outer(a, b) ==
    {And(<<a, b>>), And(<<b, a>>), Threshold(1, <<a, b>>), Threshold(2, <<b, a>>)}
    \cup {Or(<<<<w1, a>>, <<w2, b>>>>) : w1 \in Weights, w2 \in Weights}
    \cup {Or(<<<<w1, b>>, <<w2, a>>>>) : w1 \in Weights, w2 \in Weights}

DeepPols == UNION {Outer(a, b) : a \in SmallNodes(LeafPols), b \in LeafPols}

\* policies is_valid rejects, at the root and below it
BadNodes ==
    {And(<<Key("A")>>), And(<<Key("A"), Key("B"), Key("C")>>),
     Or(<<<<N(1), Key("A")>>>>),
     Or(<<<<N(1), Key("A")>>, <<N(1), Key("B")>>, <<N(1), Key("C")>>>>),
     Threshold(0, <<Key("A"), Key("B")>>), Threshold(3, <<Key("A"), Key("B")>>),
     Older(N(0)), After(N(0)), Older(<<32768, 1>>), After(<<40000, 0>>),
     And(<<Older(N(9)), Older(<<64, 9>>)>>),
     And(<<After(N(9)), After(LOCKTIME_THRESHOLD)>>),
     Trivial, Unsatisfiable}

BadPols ==
    BadNodes
    \cup UNION {{And(<<Key("C"), b>>), Or(<<<<N(1), b>>, <<N(2), Key("C")>>>>),
                 Threshold(1, <<Key("C"), b>>),
                 Or(<<<<N(1), Key("C")>>, <<N(1), And(<<Sha256("H"), b>>)>>>>)} :
                b \in BadNodes}

\* examples/taproot.rs
ExamplePolicy ==
    Or(<<<<N(99), Threshold(2, <<Key("hA"), Key("S")>>)>>,
         <<N(1), Or(<<<<N(99), Key("Ca")>>,
                      <<N(1), And(<<Key("In"), Older(N(9))>>)>>>>)>>>>)

CompilePolicies ==
    LeafPols \cup SmallNodes(LeafPols) \cup WideNodes(LeafPols) \cup DeepPols
    \cup BadPols \cup {ExamplePolicy}

Init ==
    /\ arg = NONE
    /\ NoIterators
    /\ pol \in CompilePolicies
    /\ unspendable_key \in {NoKey, "UNSPENDABLE_KEY"}
    /\ pc = "compile_tr"
    /\ steps = <<>>
    /\ internal_key = NONE
    /\ policy = NONE
    /\ leaf_policy = NONE
    /\ visit_order = <<>>
    /\ ms = <<>>
    /\ node_weights = <<>>
    /\ text = NONE
    /\ valid = NONE
    /\ result = NONE

Next ==
    \/ CompileIsValid
    \/ CompileSafe
    \/ CompileExtract
    \/ CompileLeaves
    \/ HuffPush
    \/ HuffStep
    \/ HuffReturn
    \/ CompileNewTr

Spec == Init /\ [][Next]_vars

-----------------------------------------------------------------------------
(* Properties of compile_tr                                                *)

IsPrefix(s, t) == Len(s) <= Len(t) /\ SubSeq(t, 1, Len(s)) = s

\* nothing of extract_key_new, the leaf compilation or with_huffman_tree has run
NoCompilationWork ==
    /\ internal_key = NONE
    /\ policy = NONE
    /\ leaf_policy = NONE
    /\ visit_order = <<>>
    /\ ms = <<>>
    /\ node_weights = <<>>

\* C1: compile_tr checks in a fixed order and stops at the first failure: an
\* invalid policy returns is_valid's PolicyError after the call of is_valid
\* alone; a valid policy that is not safe returns TopLevelNonSafe (malleable or
\* not) after is_valid and is_safe_nonmalleable alone; a valid, safe, malleable
\* policy returns ImpossibleNonMalleableCompilation after the same two calls;
\* in all three cases no key extraction, leaf compilation or Huffman step has
\* been performed, at any point of the run.
C1_CheckOrder ==
    LET sn == is_safe_nonmalleable(pol) IN
    /\ ~is_valid(pol).ok =>
          /\ IsPrefix(steps, <<"is_valid">>)
          /\ NoCompilationWork
          /\ pc = "done" => result = is_valid(pol)
    /\ (is_valid(pol).ok /\ ~sn[1]) =>
          /\ IsPrefix(steps, <<"is_valid", "is_safe_nonmalleable">>)
          /\ NoCompilationWork
          /\ pc = "done" => result = Err("TopLevelNonSafe")
    /\ (is_valid(pol).ok /\ sn[1] /\ ~sn[2]) =>
          /\ IsPrefix(steps, <<"is_valid", "is_safe_nonmalleable">>)
          /\ NoCompilationWork
          /\ pc = "done" => result = Err("ImpossibleNonMalleableCompilation")
    /\ (pc = "done" /\ ~result.ok /\ result.err \in
            {"TopLevelNonSafe", "ImpossibleNonMalleableCompilation"}) =>
          is_valid(pol).ok

\* a run that ended in TopLevelNonSafe on a policy that is also malleable
C1_Witness ==
    /\ pc = "done"
    /\ result = Err("TopLevelNonSafe")
    /\ is_valid(pol).ok
    /\ is_safe_nonmalleable(pol) = <<FALSE, FALSE>>

\* the leaves of a TapTree with their depths, left to right
RECURSIVE TapLeaves(_, _)
TapLeaves(t, depth) ==
    IF t.tag = "Leaf" THEN <<<<depth, t.ms>>>>
    ELSE TapLeaves(t.left, depth + 1) \o TapLeaves(t.right, depth + 1)

ExampleDescriptor ==
    Tr(MuSig(<<SingleKey("hA"), SingleKey("S")>>),
       Tree(Leaf(Compile(And(<<Key("In"), Older(N(9))>>))), Leaf(Compile(Key("Ca")))))

C3_SelectedLeaf ==
    (leaf_policy # NONE) =>
        LET cands == Candidates(pol)
            kv(p) == extract_recursive(p)
            viable == {i \in 1..Len(cands) : Len(kv(cands[i][2])) > 0}
            best == MapProb(cands, leaf_policy)
        IN  /\ Len(kv(leaf_policy)) > 0
            /\ \A i \in viable : RLe(cands[i][1], best)
            /\ \A i \in viable :
                   cands[i][1] = best => Len(kv(leaf_policy)) <= Len(kv(cands[i][2]))
            /\ internal_key =
                   MuSig([i \in 1..Len(kv(leaf_policy)) |-> SingleKey(kv(leaf_policy)[i])])
            /\ policy = translate_unsatisfiable_policy(pol, leaf_policy)

-----------------------------------------------------------------------------
(* with_huffman_tree on its own: any list of (probability, leaf) pairs     *)

MaxLeaves == 4
MaxProbNum == 4
ProbDen == 16

ProbSet == {Rat(w, ProbDen) : w \in 1..MaxProbNum}

LeafNames == <<"L1", "L2", "L3", "L4", "L5", "L6", "L7", "L8">>

\* the i-th leaf script of an input list
Script(i) == Compile(Key(LeafNames[i]))

HuffInputs ==
    UNION {{[i \in 1..n |-> <<ps[i], Script(i)>>] : ps \in [1..n -> ProbSet]} :
           n \in 0..MaxLeaves}

InitHuff ==
    /\ arg = NONE
    /\ NoIterators
    /\ ms \in HuffInputs
    /\ pc = "with_huffman_tree"
    /\ pol = NONE
    /\ unspendable_key = NoKey
    /\ steps = <<>>
    /\ internal_key = NONE
    /\ policy = NONE
    /\ leaf_policy = NONE
    /\ visit_order = <<>>
    /\ node_weights = <<>>
    /\ text = NONE
    /\ valid = NONE
    /\ result = NONE

NextHuff ==
    \/ HuffPush
    \/ HuffStep
    \/ HuffReturn

SpecHuff == InitHuff /\ [][NextHuff]_vars

\* depth of the leaf carrying script m in the leaf list ls of a tree
DepthOf(ls, m) == ls[CHOOSE i \in 1..Len(ls) : ls[i][2] = m][1]

\* C4: for every non-empty list of n (probability, leaf) pairs
\* with_huffman_tree returns a binary tree whose leaves are exactly the n input
\* leaves, each once, and in which a leaf of smaller probability is never
\* shallower than a leaf of greater probability.
C4_Huffman ==
    (pc = "huffman_returned" /\ Len(ms) > 0) =>
        /\ result.ok
        /\ LET ls == TapLeaves(result.v, 0) IN
           /\ Len(ls) = Len(ms)
           /\ \A i \in 1..Len(ms) :
                  Cardinality({j \in 1..Len(ls) : ls[j][2] = ms[i][2]}) = 1
           /\ \A i, j \in 1..Len(ms) :
                  RLt(ms[i][1], ms[j][1]) =>
                      DepthOf(ls, ms[i][2]) >= DepthOf(ls, ms[j][2])

\* a tree over at least four leaves has been returned in which two leaves of
\* different probability lie at different depths
C4_Witness ==
    /\ pc = "huffman_returned"
    /\ Len(ms) >= 4
    /\ result.ok
    /\ LET ls == TapLeaves(result.v, 0) IN
       \E i, j \in 1..Len(ms) :
           /\ RLt(ms[i][1], ms[j][1])
           /\ DepthOf(ls, ms[i][2]) > DepthOf(ls, ms[j][2])

-----------------------------------------------------------------------------
(* Display, from_str and is_valid applied to a policy built in code, and   *)
(* from_str applied to a string                                            *)

TimeValues ==
    {N(0), N(1), N(9), N(1000), <<64, 1000>>, <<7629, 25855>>, LOCKTIME_THRESHOLD,
     <<32767, 65535>>, TwoPow31, <<32768, 1>>, <<65535, 65535>>}

TimeLeaves == {After(n) : n \in TimeValues} \cup {Older(n) : n \in TimeValues}

\* usize weights, up to one that does not fit u32
ParseWeights == {N(0), N(1), N(2), N(99), <<65535, 65535>>, <<65536, 0>>}

ParseLeaves ==
    LeafPols \cup TimeLeaves
    \cup {Hash256("H"), Ripemd160("H"), Hash160("H"), Trivial, Unsatisfiable}

ThreshSubs == {Key("A"), Key("B"), Older(N(9))}

ParsePolicies ==
    CompilePolicies
    \cup ParseLeaves
    \cup {And(<<a, b>>) : a \in ParseLeaves, b \in ParseLeaves}
    \cup {Or(<<<<w1, a>>, <<w2, b>>>>) :
              w1 \in ParseWeights, w2 \in ParseWeights, a \in LeafPols, b \in LeafPols}
    \cup UNION {{Threshold(k, subs) : k \in 0..(n + 1), subs \in [1..n -> ThreshSubs]} :
                n \in 0..MaxThreshArity}

\* strings that are not the Display of a policy
RawStrings ==
    {<<Num(N(1)), At, Id("pk"), LP, Id("A"), RP>>,
     <<Id("and"), LP, Id("pk"), LP, Id("A"), RP, Comma, Id("pk"), LP, Id("B"), RP>>,
     <<Id("pk"), LP, Id("A"), RP, RP>>,
     <<Id("or"), LP, Num(N(1)), At, Num(N(2)), At, Id("pk"), LP, Id("A"), RP, Comma,
       Id("pk"), LP, Id("B"), RP, RP>>,
     <<Id("thresh"), LP, Id("pk"), LP, Id("A"), RP, Comma, Id("pk"), LP, Id("B"), RP, RP>>,
     <<Id("thresh")>>,
     <<Id("multi"), LP, Id("A"), RP>>,
     <<Id("pk"), LP, Id("A"), Comma, Id("B"), RP>>,
     <<Id("and"), LP, Num(N(1)), At, Id("pk"), LP, Id("A"), RP, Comma,
       Id("pk"), LP, Id("B"), RP, RP>>,
     <<Id("or"), LP, Id("pk"), LP, Id("A"), RP, Comma, Num(N(3)), At,
       Id("pk"), LP, Id("B"), RP, RP>>,
     <<Id("after"), LP, Id("A"), RP>>}

InitParse ==
    /\ arg = NONE
    /\ NoIterators
    /\ \/ pol \in ParsePolicies /\ text = NONE /\ pc = "display"
       \/ pol = NONE /\ text \in RawStrings /\ pc = "from_str"
    /\ unspendable_key = NoKey
    /\ steps = <<>>
    /\ internal_key = NONE
    /\ policy = NONE
    /\ leaf_policy = NONE
    /\ visit_order = <<>>
    /\ ms = <<>>
    /\ node_weights = <<>>
    /\ valid = NONE
    /\ result = NONE

\* format!("{}", pol)
DisplayCall ==
    /\ pc = "display"
    /\ text' = Display(pol)
    /\ pc' = "from_str"
    /\ UNCHANGED <<arg, iterVars>>
    /\ UNCHANGED <<pol, unspendable_key, steps, internal_key, policy, leaf_policy,
                   visit_order, ms, node_weights, valid, result>>

\* Policy::from_str(&text)
FromStrCall ==
    /\ pc = "from_str"
    /\ result' = from_str(text)
    /\ pc' = IF pol = NONE THEN "done" ELSE "is_valid"
    /\ UNCHANGED <<arg, iterVars>>
    /\ UNCHANGED <<pol, unspendable_key, steps, internal_key, policy, leaf_policy,
                   visit_order, ms, node_weights, text, valid>>

\* pol.is_valid()
IsValidCall ==
    /\ pc = "is_valid"
    /\ valid' = is_valid(pol)
    /\ pc' = "done"
    /\ UNCHANGED <<arg, iterVars>>
    /\ UNCHANGED <<pol, unspendable_key, steps, internal_key, policy, leaf_policy,
                   visit_order, ms, node_weights, text, result>>

NextParse ==
    \/ DisplayCall
    \/ FromStrCall
    \/ IsValidCall

SpecParse == InitParse /\ [][NextParse]_vars

-----------------------------------------------------------------------------
(* Properties of Display, from_str and is_valid                            *)

Parsed == pc = "done" /\ pol # NONE

\* C5: for every policy accepted by is_valid, parsing its Display output
\* succeeds and returns a policy equal to it.
C5_RoundTrip == (Parsed /\ valid = OkUnit) => result = Ok(pol)

\* And and Or binary, 1 <= k <= |subs|, at every node
RECURSIVE WellFormed(_)
WellFormed(p) ==
    IF p.tag = "And" THEN
        Len(p.subs) = 2 /\ \A i \in 1..Len(p.subs) : WellFormed(p.subs[i])
    ELSE IF p.tag = "Or" THEN
        Len(p.subs) = 2 /\ \A i \in 1..Len(p.subs) : WellFormed(p.subs[i][2])
    ELSE IF p.tag = "Threshold" THEN
        /\ 1 <= p.k
        /\ p.k <= Len(p.subs)
        /\ \A i \in 1..Len(p.subs) : WellFormed(p.subs[i])
    ELSE TRUE

\* C6: when is_valid returns Ok, every node of the policy, at any depth, is
\* well formed: And and Or have exactly two children and each Threshold(k,
\* subs) has 1 <= k <= |subs|.
C6_ValidShape == (Parsed /\ valid = OkUnit) => WellFormed(pol)

\* an accepted policy with a Threshold below the root
C6_Witness ==
    /\ Parsed
    /\ valid = OkUnit
    /\ pol.tag \in {"And", "Or"}
    /\ \E i \in 1..Len(pol.subs) :
           LET sub == IF pol.tag = "Or" THEN pol.subs[i][2] ELSE pol.subs[i]
           IN  sub.tag = "Threshold"

\* The statement that the parser wants 0 < k < n for thresh(k, sub_0, ...,
\* sub_{n-1}) and answers IncorrectThresh otherwise, k == n included.
C7_StrictThresh ==
    (Parsed /\ pol.tag = "Threshold") =>
        /\ result.ok => (0 < pol.k /\ pol.k < Len(pol.subs))
        /\ ~(0 < pol.k /\ pol.k < Len(pol.subs)) => result = Err("IncorrectThresh")

\* C7: the parser accepts thresh(k, sub_0, ..., sub_{n-1}) only when
\* 0 < k <= n; k == 0 and k > n are rejected with IncorrectThresh, and
\* thresh(2,pk(A),pk(B)), where k == n, is accepted.
C7_ThreshBounds ==
    (Parsed /\ pol.tag = "Threshold") =>
        /\ result.ok => (0 < pol.k /\ pol.k <= Len(pol.subs))
        /\ (pol.k = 0 \/ pol.k > Len(pol.subs)) => result = Err("IncorrectThresh")
        /\ pol = Threshold(2, <<Key("A"), Key("B")>>) => result = Ok(pol)

C7_Witness ==
    /\ Parsed
    /\ pol = Threshold(2, <<Key("A"), Key("B")>>)
    /\ result = Ok(pol)

DuplicateAnd == And(<<Key("A"), Key("A")>>)

\* The statement that parsing runs check_duplicate_keys on the built tree, so
\* that and(pk(A),pk(A)) fails to parse with DuplicatePubKeys.
C8_ParseChecksDuplicates ==
    pc = "done" =>
        /\ result.ok => check_duplicate_keys(result.v).ok
        /\ pol = DuplicateAnd => result = Err("DuplicatePubKeys")

\* C8: parsing runs check_timelocks, and not check_duplicate_keys, on the
\* built tree: no parse fails with DuplicatePubKeys, and(pk(A),pk(A)) parses,
\* and it is is_valid that reports DuplicatePubKeys on it.
C8_ParseChecksTimelocksOnly ==
    pc = "done" =>
        /\ result # Err("DuplicatePubKeys")
        /\ result.ok => check_timelocks(result.v).ok
        /\ pol = DuplicateAnd => (result = Ok(pol) /\ valid = Err("DuplicatePubKeys"))

C8_Witness ==
    /\ pc = "done"
    /\ pol = DuplicateAnd
    /\ result = Ok(pol)
    /\ valid = Err("DuplicatePubKeys")

InTimeRange(n) == ~WIsZero(n) /\ WLt(n, TwoPow31)

\* C9: the parser and is_valid accept After(n) and Older(n) exactly when
\* 1 <= n < 2^31; n == 0 gives ZeroTime and every n >= 2^31 gives TimeTooFar.
C9_TimeRange ==
    (Parsed /\ pol.tag \in {"After", "Older"}) =>
        /\ result.ok <=> InTimeRange(pol.n)
        /\ valid.ok <=> InTimeRange(pol.n)
        /\ WIsZero(pol.n) => (result = Err("ZeroTime") /\ valid = Err("ZeroTime"))
        /\ WGe(pol.n, TwoPow31) =>
               (result = Err("TimeTooFar") /\ valid = Err("TimeTooFar"))

RelativeHeightAbsoluteTime == And(<<Older(N(1000)), After(LOCKTIME_THRESHOLD)>>)

\* The statement that check_timelocks, and so parse and is_valid, fails with
\* HeightTimelockCombination on and(older(1000),after(500000000)).
C10_MixedKinds ==
    (Parsed /\ pol = RelativeHeightAbsoluteTime) =>
        /\ check_timelocks(pol) = Err("HeightTimelockCombination")
        /\ result = Err("HeightTimelockCombination")
        /\ valid = Err("HeightTimelockCombination")

\* a lock counted in seconds: after(n) with n >= 500000000, older(n) with bit 22
TimeBased(l) ==
    IF l.tag = "After" THEN WGe(l.n, LOCKTIME_THRESHOLD) ELSE HasTypeFlag(l.n)

\* C10: check_timelocks, and with it is_valid and the parse of values in
\* range, fails with HeightTimelockCombination on the conjunction of two time
\* locks exactly when they are of the same kind (both older or both after)
\* and one is height-based, the other time-based; and(older(1000),
\* after(500000000)) is accepted.
C10_SameKind ==
    (Parsed /\ pol.tag = "And" /\ Len(pol.subs) = 2
        /\ pol.subs[1] \in TimeLeaves /\ pol.subs[2] \in TimeLeaves) =>
        LET a == pol.subs[1]
            b == pol.subs[2]
            mixed == a.tag = b.tag /\ TimeBased(a) # TimeBased(b)
        IN  /\ (check_timelocks(pol) = Err("HeightTimelockCombination")) <=> mixed
            /\ (valid = Err("HeightTimelockCombination")) <=> mixed
            /\ (InTimeRange(a.n) /\ InTimeRange(b.n)) =>
                   (result = IF mixed THEN Err("HeightTimelockCombination") ELSE Ok(pol))
            /\ pol = RelativeHeightAbsoluteTime => (result = Ok(pol) /\ valid = OkUnit)

C10_Witness ==
    /\ Parsed
    /\ pol = And(<<Older(N(1000)), Older(<<64, 1000>>)>>)
    /\ result = Err("HeightTimelockCombination")
    /\ valid = Err("HeightTimelockCombination")

\* every Or weight of the policy is strictly positive
RECURSIVE PositiveWeights(_)
PositiveWeights(p) ==
    IF p.tag = "Or" THEN
        \A i \in 1..Len(p.subs) : ~WIsZero(p.subs[i][1]) /\ PositiveWeights(p.subs[i][2])
    ELSE IF p.tag \in {"And", "Threshold"} THEN
        \A i \in 1..Len(p.subs) : PositiveWeights(p.subs[i])
    ELSE TRUE

\* C11: every Or node of a policy the parser returns, and of a policy
\* is_valid accepts, has a strictly positive weight on each child (a written
\* weight 0 is rejected), so the divisor w0 + w1 of to_tapleaf_prob_vec is
\* never zero.
C11_PositiveWeights ==
    pc = "done" =>
        /\ result.ok => PositiveWeights(result.v)
        /\ (pol # NONE /\ valid = OkUnit) => PositiveWeights(pol)

-----------------------------------------------------------------------------
(* Miniscript AST (miniscript/iter.rs): Terminal fragments, branches,      *)
(* get_nth_child and the per-node key accessors                            *)

Some(x) == [some |-> TRUE, v |-> x]
None == [some |-> FALSE]

PkK(key) == [node |-> "PkK", key |-> key]
\* the fields of PkH and Multi hold plain keys, those of PkK and MultiA KeyExprs
PkH(key) == [node |-> "PkH", pk |-> key]
RawPkH(hash) == [node |-> "RawPkH", hash |-> hash]
Multi(k, ks) == [node |-> "Multi", k |-> k, pks |-> ks]
MultiA(k, ks) == [node |-> "MultiA", k |-> k, keys |-> ks]
\* a fragment with neither keys nor children: after, older, sha256, ...
Nullary(name) == [node |-> name]
Wrap1(name, node) == [node |-> name, node1 |-> node]
Check(node) == Wrap1("Check", node)
Verify(node) == Wrap1("Verify", node)
Swap(node) == Wrap1("Swap", node)
Alt(node) == Wrap1("Alt", node)
Pair(name, node1, node2) == [node |-> name, node1 |-> node1, node2 |-> node2]
AndV(node1, node2) == Pair("AndV", node1, node2)
OrB(node1, node2) == Pair("OrB", node1, node2)
OrI(node1, node2) == Pair("OrI", node1, node2)
AndOr(node1, node2, node3) ==
    [node |-> "AndOr", node1 |-> node1, node2 |-> node2, node3 |-> node3]
Thresh(k, node_vec) == [node |-> "Thresh", k |-> k, node_vec |-> node_vec]

UnaryTerminals == {"Alt", "Swap", "Check", "DupIf", "Verify", "NonZero", "ZeroNotEqual"}
BinaryTerminals == {"AndV", "AndB", "OrB", "OrD", "OrC", "OrI"}

\* Pk::to_pubkeyhash
to_pubkeyhash(pk) == [hash160_of |-> pk]

PlainPubkey(pk) == [tag |-> "PlainPubkey", pk |-> pk]
HashedPubkey(pkh) == [tag |-> "HashedPubkey", pkh |-> pkh]

branches(self) ==
    IF self.node \in {"PkK", "PkH", "RawPkH", "Multi"} THEN <<>>
    ELSE IF self.node \in UnaryTerminals THEN <<self.node1>>
    ELSE IF self.node \in BinaryTerminals THEN <<self.node1, self.node2>>
    ELSE IF self.node = "AndOr" THEN <<self.node1, self.node2, self.node3>>
    ELSE IF self.node = "Thresh" THEN self.node_vec
    ELSE <<>>

\* n counts from 0, as in the source
get_nth_child(self, n) ==
    IF n = 0 /\ self.node \in UnaryTerminals THEN Some(self.node1)
    ELSE IF n = 0 /\ self.node \in BinaryTerminals THEN Some(self.node1)
    ELSE IF n = 1 /\ self.node \in BinaryTerminals THEN Some(self.node2)
    ELSE IF n = 0 /\ self.node = "AndOr" THEN Some(self.node1)
    ELSE IF n = 1 /\ self.node = "AndOr" THEN Some(self.node2)
    ELSE IF n = 2 /\ self.node = "AndOr" THEN Some(self.node3)
    ELSE IF self.node = "Thresh" THEN
        IF n < Len(self.node_vec) THEN Some(self.node_vec[n + 1]) ELSE None
    ELSE None

get_nth_pk(self, n) ==
    IF self.node = "PkH" /\ n = 0 THEN Some(self.pk)
    ELSE IF self.node = "Multi" THEN
        IF n < Len(self.pks) THEN Some(self.pks[n + 1]) ELSE None
    ELSE None

get_nth_pkh(self, n) ==
    IF self.node = "RawPkH" /\ n = 0 THEN Some(self.hash)
    ELSE IF self.node = "PkH" /\ n = 0 THEN Some(to_pubkeyhash(self.pk))
    ELSE IF self.node = "Multi" THEN
        IF n < Len(self.pks) THEN Some(to_pubkeyhash(self.pks[n + 1])) ELSE None
    ELSE None

\* get_nth_pk_pkh with the RawPkH arm missing
get_nth_pk_pkh_no_raw(self, n) ==
    IF self.node = "PkH" /\ n = 0 THEN Some(PlainPubkey(self.pk))
    ELSE IF self.node = "Multi" THEN
        IF n < Len(self.pks) THEN Some(PlainPubkey(self.pks[n + 1])) ELSE None
    ELSE None

get_nth_pk_pkh(self, n) ==
    IF self.node = "RawPkH" /\ n = 0 THEN Some(HashedPubkey(self.hash))
    ELSE IF self.node = "PkH" /\ n = 0 THEN Some(PlainPubkey(self.pk))
    ELSE IF self.node = "Multi" THEN
        IF n < Len(self.pks) THEN Some(PlainPubkey(self.pks[n + 1])) ELSE None
    ELSE None

-----------------------------------------------------------------------------
(* Iter: the node iterator                                                 *)

\* Iter::new
IterNew(ast) == [next |-> Some(ast), path |-> <<>>]

\* while let Some((node, child)) = self.path.pop() { .. }: the pair
\* <<curr, path>> the loop ends with
RECURSIVE PopPath(_)
\* the loop without self.path.push((node, child + 1))
PopPathNoPush(path) ==
    IF path = <<>> THEN <<None, path>>
    ELSE LET top == path[Len(path)]
             rest == SubSeq(path, 1, Len(path) - 1)
             curr == get_nth_child(top[1], top[2])
         IN  IF curr.some THEN <<curr, rest>>
             ELSE PopPath(rest)

PopPath(path) ==
    IF path = <<>> THEN <<None, path>>
    ELSE LET top == path[Len(path)]
             rest == SubSeq(path, 1, Len(path) - 1)
             curr == get_nth_child(top[1], top[2])
         IN  IF curr.some THEN <<curr, Append(rest, <<top[1], top[2] + 1>>)>>
             ELSE PopPath(rest)

\* Iter::next: the iterator after the call and the item returned
IterNext(self) ==
    LET popped == IF self.next.some THEN <<self.next, self.path>> ELSE PopPath(self.path)
        curr == popped[1]
    IN  IF curr.some
        THEN [iter |-> [next |-> get_nth_child(curr.v, 0),
                        path |-> Append(popped[2], <<curr.v, 1>>)],
              item |-> curr]
        ELSE [iter |-> [next |-> self.next, path |-> popped[2]], item |-> curr]

-----------------------------------------------------------------------------
(* KeyExprIter (miniscript/musig_key.rs): the leaf keys of a KeyExpr, by   *)
(* an explicit stack whose top is the last element                         *)

\* KeyExpr::iter
KeyExprIterNew(key) == <<key>>

Reverse(s) == [i \in 1..Len(s) |-> s[Len(s) + 1 - i]]

\* KeyExprIter::next: pop; a SingleKey is emitted, the children of a MuSig
\* are pushed in reverse order
RECURSIVE KeyExprIterNext(_)
KeyExprIterNext(stack) ==
    IF stack = <<>> THEN [iter |-> stack, item |-> None]
    ELSE LET top == stack[Len(stack)]
             rest == SubSeq(stack, 1, Len(stack) - 1)
         IN  IF top.tag = "SingleKey" THEN [iter |-> rest, item |-> Some(top.pk)]
             ELSE KeyExprIterNext(rest \o Reverse(top.keys))

-----------------------------------------------------------------------------
(* BaseIter and the key iterators PkIter, PkhIter, PkPkhIter               *)

\* the musig_iter and multi_a_len a current node gives
KeyIterFor(curr_node) ==
    IF ~curr_node.some THEN [musig_iter |-> None, multi_a_len |-> None]
    ELSE IF curr_node.v.node = "PkK" THEN
        [musig_iter |-> Some(KeyExprIterNew(curr_node.v.key)), multi_a_len |-> Some(1)]
    ELSE IF curr_node.v.node = "MultiA" THEN
        [musig_iter |-> Some(KeyExprIterNew(curr_node.v.keys[1])),
         multi_a_len |-> Some(Len(curr_node.v.keys))]
    ELSE [musig_iter |-> None, multi_a_len |-> None]

\* PkIter::new, PkhIter::new, PkPkhIter::new: the BaseIter they build
BaseIterNew(ast) ==
    LET first == IterNext(IterNew(ast)) IN
    [node_iter |-> first.iter,
     curr_node |-> first.item,
     musig_iter |-> KeyIterFor(first.item).musig_iter,
     multi_a_len |-> KeyIterFor(first.item).multi_a_len,
     key_index |-> 0]

PkIterNew(ast) == BaseIterNew(ast)
PkhIterNew(ast) == BaseIterNew(ast)
PkPkhIterNew(ast) == BaseIterNew(ast)

\* BaseIter::goto_next_node
goto_next_node(self) ==
    LET r == IterNext(self.node_iter) IN
    [node_iter |-> r.iter,
     curr_node |-> r.item,
     musig_iter |-> KeyIterFor(r.item).musig_iter,
     multi_a_len |-> KeyIterFor(r.item).multi_a_len,
     key_index |-> 0]

\* what each iterator makes of a key of a PkK or MultiA fragment
ItemOf(kind, pk) ==
    IF kind = "PkIter" THEN pk
    ELSE IF kind = "PkhIter" THEN to_pubkeyhash(pk)
    ELSE PlainPubkey(pk)

\* the accessor each iterator uses in the `_` arm
GetNth(kind, node, n) ==
    IF kind = "PkIter" THEN get_nth_pk(node, n)
    ELSE IF kind = "PkhIter" THEN get_nth_pkh(node, n)
    ELSE get_nth_pk_pkh(node, n)

\* one pass of the loop of next: `break item` or `continue`
Break(b, item) == [iter |-> b, item |-> item, continue |-> FALSE]
Continue(b) == [iter |-> b, item |-> None, continue |-> TRUE]

\* the PkK arm advancing to the next node as soon as a key is returned
PkKArmOneKey(kind, b) ==
    LET r == KeyExprIterNext(b.musig_iter.v)
        b1 == [b EXCEPT !.musig_iter = Some(r.iter)]
    IN  IF r.item.some THEN Break(goto_next_node(b1), Some(ItemOf(kind, r.item.v)))
        ELSE Continue(goto_next_node(b1))

\* Terminal::PkK(_) => ..
PkKArm(kind, b) ==
    LET r == KeyExprIterNext(b.musig_iter.v)
        b1 == [b EXCEPT !.musig_iter = Some(r.iter)]
    IN  IF r.item.some THEN Break(b1, Some(ItemOf(kind, r.item.v)))
        ELSE Continue(goto_next_node(b1))

\* Terminal::MultiA(_, keys) => ..
MultiAArm(kind, b) ==
    LET ks == b.curr_node.v.keys
        r == KeyExprIterNext(b.musig_iter.v)
        b1 == [b EXCEPT !.musig_iter = Some(r.iter)]
    IN  IF r.item.some THEN Break(b1, Some(ItemOf(kind, r.item.v)))
        ELSE
        LET vec_size == b1.multi_a_len.v
            b2 == [b1 EXCEPT !.key_index = @ + 1]
        IN  IF b2.key_index < vec_size THEN
                LET r2 == KeyExprIterNext(KeyExprIterNew(ks[b2.key_index + 1]))
                    b3 == [b2 EXCEPT !.musig_iter = Some(r2.iter)]
                IN  IF r2.item.some THEN Break(b3, Some(ItemOf(kind, r2.item.v)))
                    ELSE Continue([b3 EXCEPT !.key_index = @ + 1])
            ELSE Continue(goto_next_node(b2))

\* _ => match script.get_nth_..(self.base_iter.key_index)
OtherArm(kind, b) ==
    LET got == GetNth(kind, b.curr_node.v, b.key_index) IN
    IF got.some THEN Break([b EXCEPT !.key_index = @ + 1], got)
    ELSE Continue(goto_next_node(b))

\* the body of the loop of PkIter::next, PkhIter::next and PkPkhIter::next
LoopPass(kind, b) ==
    IF ~b.curr_node.some THEN Break(b, None)
    ELSE IF b.curr_node.v.node = "PkK" THEN PkKArm(kind, b)
    ELSE IF b.curr_node.v.node = "MultiA" THEN MultiAArm(kind, b)
    ELSE OtherArm(kind, b)

\* loop { .. }: the BaseIter after the call and the item returned
RECURSIVE KeyIterNext(_, _)
KeyIterNext(kind, b) ==
    LET pass == LoopPass(kind, b) IN
    IF pass.continue THEN KeyIterNext(kind, pass.iter)
    ELSE [iter |-> pass.iter, item |-> pass.item]

PkIterNext(self) == KeyIterNext("PkIter", self)
PkhIterNext(self) == KeyIterNext("PkhIter", self)
PkPkhIterNext(self) == KeyIterNext("PkPkhIter", self)

\* `for item in self` of pk_only, keys being the vector collected so far
RECURSIVE PkOnlyLoop(_, _)
\* the loop passing over a HashedPubkey instead of returning None
PkOnlyLoopSkippingHashes(self, collected) ==
    LET r == PkPkhIterNext(self) IN
    IF ~r.item.some THEN Some(collected)
    ELSE IF r.item.v.tag = "HashedPubkey" THEN PkOnlyLoop(r.iter, collected)
    ELSE PkOnlyLoop(r.iter, Append(collected, r.item.v.pk))

PkOnlyLoop(self, collected) ==
    LET r == PkPkhIterNext(self) IN
    IF ~r.item.some THEN Some(collected)
    ELSE IF r.item.v.tag = "HashedPubkey" THEN None
    ELSE PkOnlyLoop(r.iter, Append(collected, r.item.v.pk))

\* PkPkhIter::pk_only
pk_only(self) == PkOnlyLoop(self, <<>>)

-----------------------------------------------------------------------------
(* The key iterators and pk_only called on a Miniscript AST                *)

MaxCallsAfterEnd == 2
MaxMultiAKeys == 3

\* raw key hashes: the hashes of keys that do not occur in the script
H1 == to_pubkeyhash("K1")
H2 == to_pubkeyhash("K2")

PlainKeys == {SingleKey("A"), SingleKey("B")}

\* musig(F,B,musig(C,musig(D,E))) of test_musig_iter
ExampleMuSig ==
    MuSig(<<SingleKey("F"), SingleKey("B"),
            MuSig(<<SingleKey("C"), MuSig(<<SingleKey("D"), SingleKey("E")>>)>>)>>)

ShallowKeyExprs ==
    PlainKeys \cup {MuSig(<<>>)} \cup {MuSig(<<a, b>>) : a \in PlainKeys, b \in PlainKeys}

KeyExprs ==
    ShallowKeyExprs
    \cup {MuSig(<<a>>) : a \in ShallowKeyExprs}
    \cup {MuSig(<<a, b>>) : a \in ShallowKeyExprs, b \in ShallowKeyExprs}
    \cup {ExampleMuSig}

MultiAKeyExprs ==
    {SingleKey("E"), SingleKey("F"), MuSig(<<>>), MuSig(<<SingleKey("C"), SingleKey("D")>>)}

KeyLeaves ==
    {PkK(ke) : ke \in KeyExprs}
    \cup UNION {{MultiA(1, ks) : ks \in [1..n -> MultiAKeyExprs]} : n \in 1..MaxMultiAKeys}
    \cup {PkH("A"), PkH("B"), RawPkH(H1), RawPkH(H2),
          Multi(1, <<"A">>), Multi(2, <<"C", "B", "A">>),
          Nullary("Older"), Nullary("Sha256")}

SmallLeaves ==
    {PkK(SingleKey("A")), PkK(MuSig(<<SingleKey("B"), SingleKey("C")>>)), PkH("D"),
     RawPkH(H1), Multi(1, <<"A", "B">>),
     MultiA(1, <<SingleKey("E"), MuSig(<<>>), SingleKey("F")>>), Nullary("Older")}

TinyLeaves == {PkK(SingleKey("A")), RawPkH(H1), PkH("D")}

\* or_b(pk(A),s:pk(musig(F,B,musig(C,musig(D,E))))) and
\* or_b(pk(musig(A1,A2)),a:multi_a(1,B,musig(C,musig(D,E)))) of test_musig_iter
ExampleScripts ==
    {OrB(Check(PkK(SingleKey("A"))), Swap(Check(PkK(ExampleMuSig)))),
     OrB(Check(PkK(MuSig(<<SingleKey("A1"), SingleKey("A2")>>))),
         Alt(MultiA(1, <<SingleKey("B"),
                         MuSig(<<SingleKey("C"),
                                 MuSig(<<SingleKey("D"), SingleKey("E")>>)>>)>>)))}

Scripts ==
    KeyLeaves
    \cup {Check(l) : l \in KeyLeaves}
    \cup {OrB(a, Swap(b)) : a \in SmallLeaves, b \in SmallLeaves}
    \cup {AndV(Verify(Check(a)), Check(b)) : a \in SmallLeaves, b \in SmallLeaves}
    \cup {AndOr(a, b, c) : a \in TinyLeaves, b \in TinyLeaves, c \in TinyLeaves}
    \cup UNION {{Thresh(1, subs) : subs \in [1..n -> {PkK(SingleKey("A")), RawPkH(H1)}]} :
                n \in 0..3}
    \cup {OrI(AndV(a, b), Check(c)) : a \in TinyLeaves, b \in TinyLeaves, c \in TinyLeaves}
    \cup ExampleScripts

InitIter ==
    /\ miniscript \in Scripts
    /\ pk_iter = PkIterNew(miniscript)
    /\ pkh_iter = PkhIterNew(miniscript)
    /\ pk_pkh_iter = PkPkhIterNew(miniscript)
    /\ iter = IterNew(miniscript)
    /\ yielded = [Iter |-> <<>>, PkIter |-> <<>>, PkhIter |-> <<>>, PkPkhIter |-> <<>>]
    /\ pk_only_ret = NONE
    /\ pc = "iter"
    /\ pol = NONE
    /\ unspendable_key = NoKey
    /\ steps = <<>>
    /\ internal_key = NONE
    /\ policy = NONE
    /\ leaf_policy = NONE
    /\ visit_order = <<>>
    /\ ms = <<>>
    /\ node_weights = <<>>
    /\ text = NONE
    /\ valid = NONE
    /\ result = NONE
    /\ arg = NONE

policyVars ==
    <<pol, unspendable_key, steps, internal_key, policy, leaf_policy, visit_order,
      ms, node_weights, text, valid, result, arg>>

\* next() is called again after it has returned None, MaxCallsAfterEnd times in all
CanCall(ys) == Cardinality({i \in 1..Len(ys) : ~ys[i].some}) < MaxCallsAfterEnd

\* The iterators are independent objects: they are run one after the other,
\* as by iter().collect(), iter_pk().collect(), iter_pkh().collect(),
\* iter_pk_pkh().collect().

\* iter.next()
IterCall ==
    /\ pc = "iter"
    /\ iter' = IterNext(iter).iter
    /\ yielded' = [yielded EXCEPT !.Iter = Append(@, IterNext(iter).item)]
    /\ pc' = IF CanCall(yielded'.Iter) THEN "iter" ELSE "iter_pk"
    /\ UNCHANGED <<policyVars, miniscript, pk_iter, pkh_iter, pk_pkh_iter, pk_only_ret>>

\* pk_iter.next()
PkIterCall ==
    /\ pc = "iter_pk"
    /\ pk_iter' = PkIterNext(pk_iter).iter
    /\ yielded' = [yielded EXCEPT !.PkIter = Append(@, PkIterNext(pk_iter).item)]
    /\ pc' = IF CanCall(yielded'.PkIter) THEN "iter_pk" ELSE "iter_pkh"
    /\ UNCHANGED <<policyVars, miniscript, pkh_iter, pk_pkh_iter, pk_only_ret, iter>>

\* pkh_iter.next()
PkhIterCall ==
    /\ pc = "iter_pkh"
    /\ pkh_iter' = PkhIterNext(pkh_iter).iter
    /\ yielded' = [yielded EXCEPT !.PkhIter = Append(@, PkhIterNext(pkh_iter).item)]
    /\ pc' = IF CanCall(yielded'.PkhIter) THEN "iter_pkh" ELSE "iter_pk_pkh"
    /\ UNCHANGED <<policyVars, miniscript, pk_iter, pk_pkh_iter, pk_only_ret, iter>>

\* pk_pkh_iter.next()
PkPkhIterCall ==
    /\ pc = "iter_pk_pkh"
    /\ pk_pkh_iter' = PkPkhIterNext(pk_pkh_iter).iter
    /\ yielded' = [yielded EXCEPT !.PkPkhIter = Append(@, PkPkhIterNext(pk_pkh_iter).item)]
    /\ pc' = IF CanCall(yielded'.PkPkhIter) THEN "iter_pk_pkh" ELSE "pk_only"
    /\ UNCHANGED <<policyVars, miniscript, pk_iter, pkh_iter, pk_only_ret, iter>>

\* miniscript.iter_pk_pkh().pk_only()
PkOnlyCall ==
    /\ pc = "pk_only"
    /\ pk_only_ret' = pk_only(PkPkhIterNew(miniscript))
    /\ pc' = "done"
    /\ UNCHANGED <<policyVars, miniscript, pk_iter, pkh_iter, pk_pkh_iter, yielded, iter>>

NextIter ==
    \/ IterCall
    \/ PkIterCall
    \/ PkhIterCall
    \/ PkPkhIterCall
    \/ PkOnlyCall

SpecIter == InitIter /\ [][NextIter]_vars

-----------------------------------------------------------------------------
(* Properties of the key iterators                                         *)

\* the values returned before None
Items(ys) ==
    LET some == SelectSeq(ys, LAMBDA y : y.some) IN [i \in 1..Len(some) |-> some[i].v]

\* the sub-nodes of a node, read off the fragment itself
RefChildren(ast) ==
    IF "node_vec" \in DOMAIN ast THEN ast.node_vec
    ELSE IF "node3" \in DOMAIN ast THEN <<ast.node1, ast.node2, ast.node3>>
    ELSE IF "node2" \in DOMAIN ast THEN <<ast.node1, ast.node2>>
    ELSE IF "node1" \in DOMAIN ast THEN <<ast.node1>>
    ELSE <<>>

\* the nodes of an AST in preorder
RECURSIVE Preorder(_)
Preorder(ast) ==
    <<ast>> \o Flatten([i \in 1..Len(RefChildren(ast)) |-> Preorder(RefChildren(ast)[i])])

HasRawPkH(ast) == \E i \in 1..Len(Preorder(ast)) : Preorder(ast)[i].node = "RawPkH"

\* the RawPkH hashes of an AST in preorder
RawHashes(ast) ==
    LET raw == SelectSeq(Preorder(ast), LAMBDA n : n.node = "RawPkH")
    IN  [i \in 1..Len(raw) |-> raw[i].hash]

\* C12: on an AST without RawPkH node, PkPkhIter.pk_only() returns a key list
\* and that list is, element by element and in order, the sequence PkIter
\* produces on the same AST; on an AST with a RawPkH node it returns None.
C12_PkOnly ==
    pc = "done" /\ miniscript # NONE =>
        IF HasRawPkH(miniscript) THEN pk_only_ret = None
        ELSE pk_only_ret = Some(Items(yielded.PkIter))

\* pk_only returned the keys of a PkK and of a MultiA fragment
C12_Witness ==
    /\ pc = "done"
    /\ miniscript \in ExampleScripts
    /\ pk_only_ret = Some(<<"A1", "A2", "B", "C", "D", "E">>)
    /\ Items(yielded.PkIter) = <<"A1", "A2", "B", "C", "D", "E">>

PlainItems(ks) == [i \in 1..Len(ks) |-> PlainPubkey(ks[i])]
HashedItems(hs) == [i \in 1..Len(hs) |-> HashedPubkey(hs[i])]

\* The statement that PkPkhIter produces the sequence of PkIter, each key as
\* PlainPubkey, followed by the RawPkH hashes, each as HashedPubkey.
C13_PlainKeysFirst ==
    pc = "done" /\ miniscript # NONE =>
        Items(yielded.PkPkhIter)
            = PlainItems(Items(yielded.PkIter)) \o HashedItems(RawHashes(miniscript))

\* every value next() returns on a fresh iterator of the given kind
RECURSIVE CollectFrom(_, _)
CollectFrom(kind, b) ==
    LET r == KeyIterNext(kind, b) IN
    IF r.item.some THEN <<r.item.v>> \o CollectFrom(kind, r.iter) ELSE <<>>

\* what a single node, taken without its sub-nodes, adds to PkPkhIter's
\* sequence: its hash for RawPkH, the keys PkIter finds in it otherwise
NodeItems(n) ==
    IF n.node = "RawPkH" THEN <<HashedPubkey(n.hash)>>
    ELSE IF RefChildren(n) = <<>> THEN PlainItems(CollectFrom("PkIter", PkIterNew(n)))
    ELSE <<>>

\* C13: the PlainPubkey items of PkPkhIter are, in order, the keys of PkIter;
\* its HashedPubkey items are, in order, the RawPkH hashes of the AST; and
\* the two are interleaved in the preorder of the nodes they come from, a
\* hash coming before the keys of every node visited after its RawPkH node.
C13_NodeOrder ==
    pc = "done" /\ miniscript # NONE =>
        LET items == Items(yielded.PkPkhIter)
            nodes == Preorder(miniscript)
        IN  /\ SelectSeq(items, LAMBDA x : x.tag = "PlainPubkey")
                   = PlainItems(Items(yielded.PkIter))
            /\ SelectSeq(items, LAMBDA x : x.tag = "HashedPubkey")
                   = HashedItems(RawHashes(miniscript))
            /\ items = Flatten([i \in 1..Len(nodes) |-> NodeItems(nodes[i])])

\* and_v(v:c:<raw hash H1>,c:pk_k(A)): the hash comes first
C13_Witness ==
    /\ pc = "done"
    /\ miniscript = AndV(Verify(Check(RawPkH(H1))), Check(PkK(SingleKey("A"))))
    /\ Items(yielded.PkPkhIter) = <<HashedPubkey(H1), PlainPubkey("A")>>
    /\ Items(yielded.PkIter) = <<"A">>

\* the leaf keys of a KeyExpr, depth first and left to right
RECURSIVE Leaves(_)
Leaves(key) ==
    IF key.tag = "SingleKey" THEN <<key.pk>>
    ELSE Flatten([i \in 1..Len(key.keys) |-> Leaves(key.keys[i])])

\* C14: the keys PkIter yields through a PkK node are exactly the leaf keys
\* of its KeyExpr, each once, depth first and left to right;
\* pk(musig(F,B,musig(C,musig(D,E)))) yields F, B, C, D, E.
C14_MuSigLeaves ==
    pc = "done" /\ miniscript # NONE =>
        /\ miniscript.node = "PkK" => Items(yielded.PkIter) = Leaves(miniscript.key)
        /\ (miniscript.node = "Check" /\ miniscript.node1.node = "PkK") =>
               Items(yielded.PkIter) = Leaves(miniscript.node1.key)
        /\ miniscript = Check(PkK(ExampleMuSig)) =>
               Items(yielded.PkIter) = <<"F", "B", "C", "D", "E">>

C14_Witness ==
    /\ pc = "done"
    /\ miniscript = Check(PkK(ExampleMuSig))
    /\ Items(yielded.PkIter) = <<"F", "B", "C", "D", "E">>

-----------------------------------------------------------------------------
(* Policy::translate_unsatisfiable_pk, translate_pk, for_each_key          *)

RECURSIVE translate_unsatisfiable_pk(_, _)
\* translate_unsatisfiable_pk with Threshold left to the `x => x` arm
translate_unsatisfiable_pk_no_thresh(self, key) ==
    IF self.tag = "Key" /\ self.pk = key THEN Unsatisfiable
    ELSE IF self.tag = "And" THEN
        And([i \in 1..Len(self.subs) |-> translate_unsatisfiable_pk(self.subs[i], key)])
    ELSE IF self.tag = "Or" THEN
        Or([i \in 1..Len(self.subs) |->
              <<self.subs[i][1], translate_unsatisfiable_pk(self.subs[i][2], key)>>])
    ELSE self

translate_unsatisfiable_pk(self, key) ==
    IF self.tag = "Key" /\ self.pk = key THEN Unsatisfiable
    ELSE IF self.tag = "And" THEN
        And([i \in 1..Len(self.subs) |-> translate_unsatisfiable_pk(self.subs[i], key)])
    ELSE IF self.tag = "Or" THEN
        Or([i \in 1..Len(self.subs) |->
              <<self.subs[i][1], translate_unsatisfiable_pk(self.subs[i][2], key)>>])
    ELSE IF self.tag = "Threshold" THEN
        Threshold(self.k,
            [i \in 1..Len(self.subs) |-> translate_unsatisfiable_pk(self.subs[i], key)])
    ELSE self

\* A Translator: t.pk, t.sha256, t.hash256, t.ripemd160 and t.hash160 are
\* functions from a key or hash to Ok(its translation) or Err(e).

\* t.pk(pk).map(Policy::Key)
MapKey(r) == IF r.ok THEN Ok(Key(r.v)) ELSE r

\* t.sha256(h).map(Policy::Sha256) and alike; name is the variant's name
MapHash(r, name) == IF r.ok THEN Ok([tag |-> name, h |-> r.v]) ELSE r

\* the leaf arms of _translate_pk with Older and After exchanged
TranslateLeafSwapped(self, t) ==
    IF self.tag = "Key" THEN MapKey(t.pk[self.pk])
    ELSE IF self.tag = "Sha256" THEN MapHash(t.sha256[self.h], "Sha256")
    ELSE IF self.tag = "Hash256" THEN MapHash(t.hash256[self.h], "Hash256")
    ELSE IF self.tag = "Ripemd160" THEN MapHash(t.ripemd160[self.h], "Ripemd160")
    ELSE IF self.tag = "Hash160" THEN MapHash(t.hash160[self.h], "Hash160")
    ELSE IF self.tag = "Older" THEN Ok(After(self.n))
    ELSE IF self.tag = "After" THEN Ok(Older(self.n))
    ELSE Ok(self)

\* the leaf arms of _translate_pk
TranslateLeaf(self, t) ==
    IF self.tag = "Key" THEN MapKey(t.pk[self.pk])
    ELSE IF self.tag = "Sha256" THEN MapHash(t.sha256[self.h], "Sha256")
    ELSE IF self.tag = "Hash256" THEN MapHash(t.hash256[self.h], "Hash256")
    ELSE IF self.tag = "Ripemd160" THEN MapHash(t.ripemd160[self.h], "Ripemd160")
    ELSE IF self.tag = "Hash160" THEN MapHash(t.hash160[self.h], "Hash160")
    ELSE IF self.tag = "Older" THEN Ok(Older(self.n))
    ELSE IF self.tag = "After" THEN Ok(After(self.n))
    ELSE Ok(self)

RECURSIVE translate_pk(_, _)
translate_pk(self, t) ==
    IF self.tag = "Threshold" THEN
        LET new_subs == AllOk([i \in 1..Len(self.subs) |-> translate_pk(self.subs[i], t)])
        IN  IF new_subs.ok THEN Ok(Threshold(self.k, new_subs.v)) ELSE new_subs
    ELSE IF self.tag = "And" THEN
        LET new_subs == AllOk([i \in 1..Len(self.subs) |-> translate_pk(self.subs[i], t)])
        IN  IF new_subs.ok THEN Ok(And(new_subs.v)) ELSE new_subs
    ELSE IF self.tag = "Or" THEN
        LET new_subs ==
                AllOk([i \in 1..Len(self.subs) |-> translate_pk(self.subs[i][2], t)])
        IN  IF new_subs.ok
            THEN Ok(Or([i \in 1..Len(self.subs) |-> <<self.subs[i][1], new_subs.v[i]>>]))
            ELSE new_subs
    ELSE TranslateLeaf(self, t)

\* for_each_key: pred is the set of keys it holds for; calls is the sequence
\* of keys pred has been applied to. The value is [ret, calls].
RECURSIVE for_each_key_from(_, _, _), AllSubs(_, _, _)
\* subs.iter().all(..) applying the closure to every sub
AllSubsEager(subs, pred, calls) ==
    IF subs = <<>> THEN [ret |-> TRUE, calls |-> calls]
    ELSE LET r == for_each_key_from(Head(subs), pred, calls)
             rest == AllSubs(Tail(subs), pred, r.calls)
         IN  [ret |-> r.ret /\ rest.ret, calls |-> rest.calls]

\* subs.iter().all(|sub| sub.for_each_key(&mut pred))
AllSubs(subs, pred, calls) ==
    IF subs = <<>> THEN [ret |-> TRUE, calls |-> calls]
    ELSE LET r == for_each_key_from(Head(subs), pred, calls)
         IN  IF r.ret THEN AllSubs(Tail(subs), pred, r.calls) ELSE r

for_each_key_from(self, pred, calls) ==
    IF self.tag = "Key" THEN [ret |-> self.pk \in pred, calls |-> Append(calls, self.pk)]
    ELSE IF self.tag \in {"Threshold", "And"} THEN AllSubs(self.subs, pred, calls)
    ELSE IF self.tag = "Or" THEN
        AllSubs([i \in 1..Len(self.subs) |-> self.subs[i][2]], pred, calls)
    ELSE [ret |-> TRUE, calls |-> calls]

for_each_key(self, pred) == for_each_key_from(self, pred, <<>>)

-----------------------------------------------------------------------------
(* The operations of Policy called one at a time on a policy:               *)
(* translate_unsatisfiable_pk, translate_pk, for_each_key and               *)
(* is_safe_nonmalleable.                                                    *)

OpKeys == {"A", "B", "C"}
OpHashes == {"H"}
OpTimes == {N(9)}

OpLeaves ==
    {Key(k) : k \in OpKeys}
    \cup {Older(N(9)), After(N(9)), Sha256("H"), Hash256("H"), Ripemd160("H"),
          Hash160("H"), Trivial, Unsatisfiable}

OpInner == SmallNodes({Key("A"), Key("B"), Older(N(9))})

\* a node over one inner node and one leaf
OpOuter(a, b) ==
    {And(<<a, b>>), Or(<<<<N(1), b>>, <<N(2), a>>>>), Threshold(2, <<b, a, b>>)}

\* nodes with the arities and thresholds is_valid rejects; k never exceeds
\* the number of children
OpOddNodes ==
    {And(<<Key("A")>>), And(<<Key("A"), Key("B"), Key("A")>>),
     Or(<<<<N(1), Key("A")>>>>),
     Or(<<<<N(0), Key("B")>>, <<N(3), Key("A")>>, <<N(1), Sha256("H")>>>>),
     Threshold(0, <<Key("A"), Key("B")>>),
     Threshold(3, <<Key("C"), After(N(9)), Key("C")>>),
     And(<<>>), Or(<<>>), Threshold(0, <<>>)}

\* a Threshold with 1 < k < n below an Or, below a Threshold(1, ..) and below
\* an And
OpNested ==
    {Or(<<<<N(1), Key("A")>>,
          <<N(3), Threshold(2, <<Key("B"), Key("C"), Older(N(9))>>)>>>>),
     Threshold(1, <<Threshold(2, <<Key("A"), Key("B"), Key("C")>>),
                    And(<<Threshold(2, <<Key("A"), Key("B"), Key("C")>>), Sha256("H")>>),
                    Threshold(2, <<Key("A"), Key("B"), Key("C")>>)>>),
     Threshold(1, <<Key("A"), And(<<Key("A"), Older(N(9))>>),
                    Threshold(3, <<Key("A"), Key("B"), Threshold(1, <<Key("A"), Key("C")>>)>>),
                    Key("A")>>)}

\* the policy tree of the comment on to_tapleaf_prob_vec
TapleafExample ==
    Or(<<<<N(2), Key("A")>>,
         <<N(1), Or(<<<<N(3), Key("B")>>, <<N(1), Key("C")>>>>)>>>>)

\* the probabilities to_tapleaf_prob_vec is called with
OpProbs == {ROne, Rat(1, 2), Rat(2, 3)}

\* policies with a Threshold whose k exceeds its number of children
OverflowPolicies ==
    {Threshold(3, <<Key("A"), Key("B")>>),
     Threshold(4, <<Key("A"), Key("B")>>),
     Threshold(3, <<Key("A"), Sha256("H")>>),
     Threshold(1, <<>>),
     And(<<Key("C"), Threshold(3, <<Key("A"), Key("B")>>)>>),
     Or(<<<<N(1), Key("C")>>, <<N(1), Threshold(4, <<Key("A"), Older(N(9)), Key("B")>>)>>>>),
     Threshold(2, <<Key("C"), Threshold(2, <<Key("A")>>)>>)}

\* whether the build checks integer overflow
Builds == {"debug", "release"}

\* height-based and time-based locks of both kinds: older(10), older(4194314),
\* after(100), after(500000000)
LockLeaves ==
    {Older(N(10)), Older(<<64, 10>>), After(N(100)), After(LOCKTIME_THRESHOLD), Key("A")}

LockSubs ==
    LockLeaves
    \cup {And(<<a, b>>) : a \in LockLeaves, b \in LockLeaves}
    \cup {Or(<<<<N(1), a>>, <<N(1), b>>>>) : a \in LockLeaves, b \in LockLeaves}

TimelockPolicies ==
    {Or(<<<<N(1), a>>, <<N(2), b>>>>) : a \in LockSubs, b \in LockSubs}
    \cup {Threshold(1, <<a, b>>) : a \in LockSubs, b \in LockSubs}
    \cup {Threshold(1, subs) : subs \in [1..3 -> LockLeaves]}
    \cup {Threshold(2, subs) : subs \in [1..3 -> LockLeaves]}
    \cup LockSubs

\* outcomes of a call: a value returned, or a panic
Returns(v) == [ret |-> v]
Panicked(msg) == [panic |-> msg]

OpPolicies ==
    OpLeaves \cup SmallNodes(OpLeaves) \cup OpOddNodes \cup OpNested \cup {TapleafExample}
    \cup UNION {OpOuter(a, b) : a \in OpInner, b \in OpLeaves}

\* the keys translate_unsatisfiable_pk is called with; D is in no policy
UnsatKeys == {"A", "B", "D"}

\* the keys a predicate given to for_each_key holds for
Predicates == {{}, {"A"}, {"A", "B"}, {"B", "C"}, {"A", "B", "C"}}

\* Translator callbacks
IdentityMap(S) == [x \in S |-> Ok(x)]
FreshKeys == "A" :> Ok("A'") @@ "B" :> Ok("B'") @@ "C" :> Ok("C'")
FreshHashes == "H" :> Ok("H'")
FailingMap(S, bad, e) == [x \in S |-> IF x = bad THEN Err(e) ELSE Ok(x)]

Translator(pk, sha256, hash256, ripemd160, hash160) ==
    [pk |-> pk, sha256 |-> sha256, hash256 |-> hash256,
     ripemd160 |-> ripemd160, hash160 |-> hash160]

IdentityTranslator ==
    Translator(IdentityMap(OpKeys), IdentityMap(OpHashes), IdentityMap(OpHashes),
               IdentityMap(OpHashes), IdentityMap(OpHashes))

Translators ==
    {IdentityTranslator,
     Translator(FreshKeys, FreshHashes, FreshHashes,
                FreshHashes, FreshHashes),
     Translator(FreshKeys, IdentityMap(OpHashes), IdentityMap(OpHashes),
                IdentityMap(OpHashes), IdentityMap(OpHashes)),
     Translator(FailingMap(OpKeys, "B", "pk"), IdentityMap(OpHashes),
                IdentityMap(OpHashes), IdentityMap(OpHashes), IdentityMap(OpHashes)),
     Translator(IdentityMap(OpKeys), FailingMap(OpHashes, "H", "sha256"),
                IdentityMap(OpHashes), IdentityMap(OpHashes),
                FailingMap(OpHashes, "H", "hash160")),
     Translator(FailingMap(OpKeys, "A", "pk"), FailingMap(OpHashes, "H", "sha256"),
                FailingMap(OpHashes, "H", "hash256"),
                FailingMap(OpHashes, "H", "ripemd160"),
                FailingMap(OpHashes, "H", "hash160"))}

\* Injective renamings of the keys, the hash values and the timelock values
Renaming(pk, hash, time) == [pk |-> pk, hash |-> hash, time |-> time]

Renamings ==
    {Renaming([k \in OpKeys |-> k], [h \in OpHashes |-> h], [t \in OpTimes |-> N(0)]),
     Renaming("A" :> "B" @@ "B" :> "C" @@ "C" :> "A", [h \in OpHashes |-> "G"],
              [t \in OpTimes |-> t]),
     Renaming("A" :> "X" @@ "B" :> "A" @@ "C" :> "Y", [h \in OpHashes |-> "G"],
              [t \in OpTimes |-> N(10)]),
     Renaming("A" :> "C" @@ "B" :> "B" @@ "C" :> "A", [h \in OpHashes |-> h],
              [t \in OpTimes |-> TwoPow31])}

\* the policy p with its keys, hash values and timelock values renamed by r
RECURSIVE Renamed(_, _)
Renamed(p, r) ==
    IF p.tag = "Key" THEN Key(r.pk[p.pk])
    ELSE IF p.tag \in HashTags THEN [p EXCEPT !.h = r.hash[p.h]]
    ELSE IF p.tag \in {"After", "Older"} THEN [p EXCEPT !.n = r.time[p.n]]
    ELSE IF p.tag \in {"And", "Threshold"} THEN
        [p EXCEPT !.subs = [i \in 1..Len(p.subs) |-> Renamed(p.subs[i], r)]]
    ELSE IF p.tag = "Or" THEN
        [p EXCEPT !.subs = [i \in 1..Len(p.subs) |->
                              <<p.subs[i][1], Renamed(p.subs[i][2], r)>>]]
    ELSE p

opsIdle ==
    /\ NoIterators
    /\ unspendable_key = NoKey
    /\ steps = <<>>
    /\ internal_key = NONE
    /\ leaf_policy = NONE
    /\ visit_order = <<>>
    /\ ms = <<>>
    /\ node_weights = <<>>
    /\ text = NONE
    /\ valid = NONE
    /\ result = NONE

InitOps ==
    /\ opsIdle
    /\ pol \in OpPolicies \cup OverflowPolicies \cup TimelockPolicies
    /\ \/ /\ pol \in OpPolicies \cup OverflowPolicies
          /\ pc = "is_safe_nonmalleable_in_build"
          /\ arg \in Builds
          /\ policy = NONE
       \/ pol \in TimelockPolicies /\ pc = "check_timelocks" /\ arg = NONE /\ policy = NONE
       \/ pol \in OpPolicies /\ pc = "translate_unsatisfiable_pk" /\ arg \in UnsatKeys /\ policy = NONE
       \/ pol \in OpPolicies /\ pc = "translate_pk" /\ arg \in Translators /\ policy = NONE
       \/ pol \in OpPolicies /\ pc = "for_each_key" /\ arg \in Predicates /\ policy = NONE
       \/ pol \in OpPolicies /\ pc = "to_tapleaf_prob_vec" /\ arg \in OpProbs /\ policy = NONE
       \/ /\ pol \in OpPolicies
          /\ pc = "translate_unsatisfiable_policy"
          /\ arg \in {e[2] : e \in Range(to_tapleaf_prob_vec(pol, ROne))}
          /\ policy = NONE
       \/ pol \in OpPolicies /\ pc = "is_safe_nonmalleable" /\ arg \in Renamings /\ policy = Renamed(pol, arg)

opsFrame ==
    <<pol, arg, policy, unspendable_key, internal_key, leaf_policy, visit_order, ms,
      node_weights, text, iterVars>>

\* pol.translate_unsatisfiable_pk(&key)
TranslateUnsatisfiablePkCall ==
    /\ pc = "translate_unsatisfiable_pk"
    /\ result' = translate_unsatisfiable_pk(pol, arg)
    /\ steps' = Append(steps, "translate_unsatisfiable_pk")
    /\ pc' = "done"
    /\ UNCHANGED <<opsFrame, valid>>

\* pol.translate_pk(&mut t)
TranslatePkCall ==
    /\ pc = "translate_pk"
    /\ result' = translate_pk(pol, arg)
    /\ steps' = Append(steps, "translate_pk")
    /\ pc' = "done"
    /\ UNCHANGED <<opsFrame, valid>>

\* pol.for_each_key(pred)
ForEachKeyCall ==
    /\ pc = "for_each_key"
    /\ result' = for_each_key(pol, arg)
    /\ steps' = Append(steps, "for_each_key")
    /\ pc' = "done"
    /\ UNCHANGED <<opsFrame, valid>>

\* pol.translate_unsatisfiable_policy(&leaf), leaf being a flattened leaf of pol
TranslateUnsatisfiablePolicyCall ==
    /\ pc = "translate_unsatisfiable_policy"
    /\ result' = translate_unsatisfiable_policy(pol, arg)
    /\ steps' = Append(steps, "translate_unsatisfiable_policy")
    /\ pc' = "done"
    /\ UNCHANGED <<opsFrame, valid>>

\* pol.to_tapleaf_prob_vec(prob)
ToTapleafProbVecCall ==
    /\ pc = "to_tapleaf_prob_vec"
    /\ result' = to_tapleaf_prob_vec(pol, arg)
    /\ steps' = Append(steps, "to_tapleaf_prob_vec")
    /\ pc' = "done"
    /\ UNCHANGED <<opsFrame, valid>>

\* pol.is_safe_nonmalleable() in the build arg
IsSafeNonmalleableBuildCall ==
    /\ pc = "is_safe_nonmalleable_in_build"
    /\ result' = IF arg = "debug" /\ SubOverflows(pol)
                 THEN Panicked("attempt to subtract with overflow")
                 ELSE Returns(is_safe_nonmalleable(pol))
    /\ steps' = Append(steps, "is_safe_nonmalleable_in_build")
    /\ pc' = "done"
    /\ UNCHANGED <<opsFrame, valid>>

\* pol.is_safe_nonmalleable()
IsSafeNonmalleableCall ==
    /\ pc = "is_safe_nonmalleable"
    /\ result' = is_safe_nonmalleable(pol)
    /\ steps' = Append(steps, "is_safe_nonmalleable")
    /\ pc' = "is_safe_nonmalleable_renamed"
    /\ UNCHANGED <<opsFrame, valid>>

\* policy.is_safe_nonmalleable(), policy being pol renamed
IsSafeNonmalleableRenamedCall ==
    /\ pc = "is_safe_nonmalleable_renamed"
    /\ valid' = is_safe_nonmalleable(policy)
    /\ steps' = Append(steps, "is_safe_nonmalleable")
    /\ pc' = "done"
    /\ UNCHANGED <<opsFrame, result>>

\* pol.check_timelocks()
CheckTimelocksCall ==
    /\ pc = "check_timelocks"
    /\ result' = check_timelocks(pol)
    /\ steps' = Append(steps, "check_timelocks")
    /\ pc' = "done"
    /\ UNCHANGED <<opsFrame, valid>>

NextOps ==
    \/ CheckTimelocksCall
    \/ TranslateUnsatisfiablePkCall
    \/ TranslatePkCall
    \/ ForEachKeyCall
    \/ TranslateUnsatisfiablePolicyCall
    \/ ToTapleafProbVecCall
    \/ IsSafeNonmalleableBuildCall
    \/ IsSafeNonmalleableCall
    \/ IsSafeNonmalleableRenamedCall

SpecOps == InitOps /\ [][NextOps]_vars

\* the operation op has returned
Returned(op) == pc = "done" /\ steps # <<>> /\ steps[1] = op

-----------------------------------------------------------------------------
(* translate_unsatisfiable_pk                                               *)

\* q is p with every Key(k) replaced by Unsatisfiable and nothing else changed
RECURSIVE ReplacedKey(_, _, _)
ReplacedKey(p, k, q) ==
    IF p.tag = "Key" THEN q = (IF p.pk = k THEN Unsatisfiable ELSE p)
    ELSE IF p.tag \in {"And", "Or", "Threshold"} THEN
        /\ q.tag = p.tag
        /\ Len(q.subs) = Len(p.subs)
        /\ p.tag = "Threshold" => q.k = p.k
        /\ \A i \in 1..Len(p.subs) :
              IF p.tag = "Or"
              THEN /\ q.subs[i][1] = p.subs[i][1]
                   /\ ReplacedKey(p.subs[i][2], k, q.subs[i][2])
              ELSE ReplacedKey(p.subs[i], k, q.subs[i])
    ELSE q = p

\* C15: translate_unsatisfiable_pk(k) returns the policy with every Key leaf
\* equal to k replaced by Unsatisfiable and every other node unchanged, and
\* keys() of the result does not contain k.
C15_KeyReplaced ==
    Returned("translate_unsatisfiable_pk") =>
        /\ ReplacedKey(pol, arg, result)
        /\ arg \notin Range(keys(result))
        /\ \A k \in Range(keys(pol)) \ {arg} :
              Count([i \in 1..Len(keys(pol)) |-> keys(pol)[i] = k])
              = Count([i \in 1..Len(keys(result)) |-> keys(result)[i] = k])

\* the key occurs twice below a Threshold that also holds another key
C15_Witness ==
    /\ Returned("translate_unsatisfiable_pk")
    /\ pol.tag = "Threshold"
    /\ Count([i \in 1..Len(keys(pol)) |-> keys(pol)[i] = arg]) = 2
    /\ Len(keys(result)) = 1
    /\ result # pol

-----------------------------------------------------------------------------
(* translate_pk                                                             *)

IsIdentity(t) ==
    /\ \A k \in OpKeys : t.pk[k] = Ok(k)
    /\ \A h \in OpHashes :
          /\ t.sha256[h] = Ok(h)
          /\ t.hash256[h] = Ok(h)
          /\ t.ripemd160[h] = Ok(h)
          /\ t.hash160[h] = Ok(h)

\* C16: translate_pk with the identity translator succeeds and returns a
\* policy equal to the one it was called on.
C16_IdentityTranslation ==
    (Returned("translate_pk") /\ IsIdentity(arg)) => result = Ok(pol)

\* an Or over a nested node and a timelock, keys and timelocks in it
C16_Witness ==
    /\ Returned("translate_pk")
    /\ IsIdentity(arg)
    /\ pol.tag = "Or"
    /\ Len(pol.subs) = 2
    /\ pol.subs[1][2].tag = "Older"
    /\ pol.subs[2][2].tag = "Threshold"
    /\ Len(keys(pol)) = 2
    /\ result.ok

-----------------------------------------------------------------------------
(* for_each_key                                                             *)

\* the keys up to and including the first one outside pred
RECURSIVE UpToFirstFalse(_, _)
UpToFirstFalse(ks, pred) ==
    IF ks = <<>> THEN <<>>
    ELSE IF Head(ks) \in pred THEN <<Head(ks)>> \o UpToFirstFalse(Tail(ks), pred)
    ELSE <<Head(ks)>>

\* C17: for_each_key(pred) is true exactly when pred holds for every Key
\* leaf; pred is applied to the Key leaves from left to right and to none
\* after the first it is false for.
C17_ForEachKey ==
    Returned("for_each_key") =>
        /\ result.ret = (\A k \in Range(keys(pol)) : k \in arg)
        /\ result.calls = UpToFirstFalse(keys(pol), arg)
        /\ arg = OpKeys => result.ret
        /\ arg = {} => (result.ret = (keys(pol) = <<>>))

\* pred fails on the second of three Key leaves
C17_Witness ==
    /\ Returned("for_each_key")
    /\ Len(keys(pol)) = 3
    /\ Len(result.calls) = 2
    /\ ~result.ret

-----------------------------------------------------------------------------
(* is_safe_nonmalleable under renaming                                      *)

\* C18: a policy and its image under an injective renaming of keys, hash
\* values and timelock values have the same (safe, non_malleable) pair.
C18_RenamingInvariant ==
    Returned("is_safe_nonmalleable") => result = valid

\* keys, a hash and a timelock are renamed in an unsafe policy
C18_Witness ==
    /\ Returned("is_safe_nonmalleable")
    /\ policy # pol
    /\ keys(policy) # keys(pol)
    /\ pol.tag = "Or"
    /\ result = <<FALSE, TRUE>>
    /\ valid = <<FALSE, TRUE>>

-----------------------------------------------------------------------------
(* extract_key_new and the order of the HashMap                             *)

\* C19: the internal key and the pruned policy returned by extract_key_new
\* are the same whatever order the candidate leaves are visited in.
C19_OrderIndependent ==
    "extract_key_new" \in Range(steps) =>
        \A order \in Perms(MapKeys(Candidates(pol))) :
            extract_key_new(pol, unspendable_key, order)
            = extract_key_new(pol, unspendable_key, visit_order)

-----------------------------------------------------------------------------
(* The conditions a policy is satisfied by                                  *)

\* the leaves of p that stand for a condition: keys, hashes, timelocks
RECURSIVE Atoms(_)
Atoms(p) ==
    IF p.tag \in {"And", "Threshold"} THEN UNION {Atoms(p.subs[i]) : i \in 1..Len(p.subs)}
    ELSE IF p.tag = "Or" THEN UNION {Atoms(p.subs[i][2]) : i \in 1..Len(p.subs)}
    ELSE IF p.tag \in {"Trivial", "Unsatisfiable"} THEN {}
    ELSE {p}

\* p is satisfied when exactly the conditions in w are met
RECURSIVE Sat(_, _)
Sat(p, w) ==
    IF p.tag = "Trivial" THEN TRUE
    ELSE IF p.tag = "Unsatisfiable" THEN FALSE
    ELSE IF p.tag = "And" THEN \A i \in 1..Len(p.subs) : Sat(p.subs[i], w)
    ELSE IF p.tag = "Or" THEN \E i \in 1..Len(p.subs) : Sat(p.subs[i][2], w)
    ELSE IF p.tag = "Threshold" THEN
        Count([i \in 1..Len(p.subs) |-> Sat(p.subs[i], w)]) >= p.k
    ELSE p \in w

\* every key of the internal key signs in w
KeyPathSat(ik, w) ==
    IF ik.tag = "SingleKey" THEN Key(ik.pk) \in w
    ELSE \A i \in 1..Len(ik.keys) : Key(ik.keys[i].pk) \in w

\* w satisfies a leaf of the pruned policy that is not Unsatisfiable
ScriptPathSat(pruned, w) ==
    LET leaves == to_tapleaf_prob_vec(pruned, ROne)
    IN  \E i \in 1..Len(leaves) : leaves[i][2] # Unsatisfiable /\ Sat(leaves[i][2], w)

\* C20: when extract_key_new selects a candidate leaf, every set of met
\* conditions that satisfies the original policy contains all keys of the
\* internal key or satisfies a leaf of the pruned policy that is not
\* Unsatisfiable.
C20_SplitComplete ==
    ("extract_key_new" \in Range(steps) /\ leaf_policy # NONE) =>
        \A w \in SUBSET Atoms(pol) :
            Sat(pol, w) => KeyPathSat(internal_key, w) \/ ScriptPathSat(policy, w)

-----------------------------------------------------------------------------
(* The key path of the descriptor compile_tr returns                        *)

\* compile_tr has returned a descriptor
Compiled == pc = "done" /\ result # NONE /\ result.ok

\* the conditions met when the keys of ik sign and nothing else happens
KeysOf(ik) ==
    IF ik.tag = "SingleKey" THEN {Key(ik.pk)}
    ELSE {Key(ik.keys[i].pk) : i \in 1..Len(ik.keys)}

\* C21: when compile_tr returns a descriptor whose internal key is built
\* from keys of the policy, signatures by all keys of the internal key and
\* nothing else satisfy the policy.
C21_KeyPathSound ==
    (Compiled /\ internal_key.tag = "MuSig") => Sat(pol, KeysOf(internal_key))

\* every flattened leaf of the pruned policy is Unsatisfiable
AllPruned(p) ==
    LET leaves == to_tapleaf_prob_vec(p, ROne)
    IN  \A i \in 1..Len(leaves) : leaves[i][2] = Unsatisfiable

\* C22: compile_tr never calls with_huffman_tree on an empty list; for a
\* policy the internal key consumes entirely it returns a descriptor with
\* the internal key and no script tree.
C22_KeyPathOnly ==
    /\ (pc = "with_huffman_tree" /\ leaf_policy # NONE) => ms # <<>>
    /\ (pc = "done" /\ leaf_policy # NONE /\ AllPruned(policy)) =>
           result = Ok(Tr(internal_key, NoTree))

-----------------------------------------------------------------------------
(* translate_unsatisfiable_policy and the flattened leaves                  *)

\* the leaf l of the flattening after l0 has been pruned
PrunedLeaf(l, l0) ==
    IF l = l0 /\ ~(l0.tag = "Threshold" /\ l0.k # Len(l0.subs)) THEN Unsatisfiable ELSE l

\* C23: the flattened leaves of translate_unsatisfiable_policy(P, L) have the
\* length, order and probabilities of the flattened leaves of P, each leaf
\* equal to L being Unsatisfiable and every other leaf unchanged; nothing
\* changes when L is a Threshold with k different from its number of children.
C23_PruneFlatten ==
    Returned("translate_unsatisfiable_policy") =>
        LET before == to_tapleaf_prob_vec(pol, ROne)
            after == to_tapleaf_prob_vec(result, ROne)
        IN  /\ Len(after) = Len(before)
            /\ \A i \in 1..Len(before) :
                  /\ after[i][1] = before[i][1]
                  /\ after[i][2] = PrunedLeaf(before[i][2], arg)
            /\ (arg.tag = "Threshold" /\ arg.k # Len(arg.subs)) => result = pol

\* the leaf occurs twice among the flattened leaves below a Threshold(1, ..)
\* and once more below an And, which is left as it is
C23_Witness ==
    /\ Returned("translate_unsatisfiable_policy")
    /\ pol.tag = "Threshold"
    /\ arg = Key("A")
    /\ Len(to_tapleaf_prob_vec(pol, ROne)) = 4
    /\ Count([i \in 1..4 |-> to_tapleaf_prob_vec(result, ROne)[i][2] = Unsatisfiable]) = 2
    /\ to_tapleaf_prob_vec(result, ROne)[2][2] = And(<<Key("A"), Older(N(9))>>)

-----------------------------------------------------------------------------
(* extract_key_new without a viable candidate                               *)

\* no candidate leaf of p has a non-empty key-vector
NoViable(p) ==
    \A i \in 1..Len(Candidates(p)) : extract_recursive(Candidates(p)[i][2]) = <<>>

Extracted == "extract_key_new" \in Range(steps)

-----------------------------------------------------------------------------
(* to_tapleaf_prob_vec                                                      *)

\* the nodes to_tapleaf_prob_vec descends through
IsSplit(p) == p.tag = "Or" \/ (p.tag = "Threshold" /\ p.k = 1)

SplitChildren(p) ==
    IF p.tag = "Or" THEN [i \in 1..Len(p.subs) |-> p.subs[i][2]] ELSE p.subs

\* the share of its probability the node p gives to its i-th child, as a
\* numerator and a denominator
ShareNum(p, i) == IF p.tag = "Or" THEN WVal(p.subs[i][1]) ELSE 1
ShareDen(p) == IF p.tag = "Or" THEN SumOdds(p.subs) ELSE Len(p.subs)

\* the leaves of p from left to right, each with the product of the shares
\* on the way to it
RECURSIVE RefLeaves(_, _)
RefLeaves(p, prob) ==
    IF IsSplit(p)
    THEN Flatten([i \in 1..Len(p.subs) |->
             RefLeaves(SplitChildren(p)[i],
                       Rat(prob[1] * ShareNum(p, i), prob[2] * ShareDen(p)))])
    ELSE <<<<prob, p>>>>

\* every node that is split has a child, and every Or weight is positive
RECURSIVE SplitsProper(_)
SplitsProper(p) ==
    IsSplit(p) =>
        /\ Len(p.subs) > 0
        /\ \A i \in 1..Len(p.subs) : ShareNum(p, i) > 0 /\ SplitsProper(SplitChildren(p)[i])

RECURSIVE RSum(_)
RSum(ps) == IF ps = <<>> THEN RZero ELSE RAdd(Head(ps)[1], RSum(Tail(ps)))

\* C25: to_tapleaf_prob_vec returns the leaves from left to right, an Or
\* giving each child the share w_i / (w0 + w1) of its probability and a
\* Threshold with k == 1 equal shares; no leaf is an Or or a Threshold with
\* k == 1; with positive weights the probabilities sum to prob; the tree of
\* the comment gives [(2/3, A), (1/4, B), (1/12, C)].
C25_TapleafProbVec ==
    Returned("to_tapleaf_prob_vec") =>
        /\ result = RefLeaves(pol, arg)
        /\ \A i \in 1..Len(result) : ~IsSplit(result[i][2])
        /\ SplitsProper(pol) => RSum(result) = arg
        /\ (pol = TapleafExample /\ arg = ROne) =>
               result = << <<Rat(2, 3), Key("A")>>, <<Rat(1, 4), Key("B")>>,
                           <<Rat(1, 12), Key("C")>> >>

\* a Threshold with k == 1 over two children below an Or of weights 1 and 2
C25_Witness ==
    /\ Returned("to_tapleaf_prob_vec")
    /\ arg = ROne
    /\ pol.tag = "Or"
    /\ Len(pol.subs) = 2
    /\ IsSplit(pol.subs[2][2])
    /\ Len(result) = 3
    /\ result[1][1] = Rat(1, 3)
    /\ result[2][1] = result[3][1]

-----------------------------------------------------------------------------
(* is_safe_nonmalleable against the bottom-up definition                    *)

\* the (safe, non_malleable) pair of the bottom-up definition, n - k + 1 and
\* n - k being integers
RECURSIVE SafeNonMalleable(_)
SafeNonMalleable(p) ==
    IF p.tag \in {"Unsatisfiable", "Trivial", "Key"} THEN <<TRUE, TRUE>>
    ELSE IF p.tag \in {"And", "Or", "Threshold"} THEN
        LET rs == [i \in 1..Len(p.subs) |->
                      SafeNonMalleable(IF p.tag = "Or" THEN p.subs[i][2] ELSE p.subs[i])]
            n == Len(rs)
            safe == Cardinality({i \in 1..n : rs[i][1]})
            non_mall == Cardinality({i \in 1..n : rs[i][2]})
        IN  IF p.tag = "Threshold"
            THEN <<safe >= n - p.k + 1, non_mall = n /\ safe >= n - p.k>>
            ELSE IF p.tag = "And" THEN <<safe >= 1, non_mall = n>>
            ELSE <<safe = n, non_mall = n /\ safe >= 1>>
    ELSE <<FALSE, TRUE>>

\* C26: for every policy, is_safe_nonmalleable returns the pair of the
\* bottom-up definition.
C26_SafeNonMalleable ==
    Returned("is_safe_nonmalleable_in_build") => result = Returns(SafeNonMalleable(pol))

-----------------------------------------------------------------------------
(* Iter                                                                     *)

\* ys is a run of values followed by None only
NoneForever(ys) == \A i \in 1..Len(ys) : \A j \in i..Len(ys) : ~ys[i].some => ~ys[j].some

\* get_nth_child(n) is the n-th element of branches(), counting from 0
ChildIsBranch(node) ==
    \A n \in 0..(Len(branches(node)) + 1) :
        get_nth_child(node, n)
        = IF n < Len(branches(node)) THEN Some(branches(node)[n + 1]) ELSE None

\* C27: the calls of Iter::next return the nodes of the AST in preorder,
\* each once, then None on every later call; get_nth_child(i) is the i-th
\* element of branches() at every node.
C27_IterPreorder ==
    miniscript # NONE =>
        /\ NoneForever(yielded.Iter)
        /\ IsPrefix(Items(yielded.Iter), Preorder(miniscript))
        /\ Len(Items(yielded.Iter)) < Len(yielded.Iter) =>
               /\ Items(yielded.Iter) = Preorder(miniscript)
               /\ iter = [next |-> None, path |-> <<>>]
               /\ IterNext(iter) = [iter |-> iter, item |-> None]
        /\ pc # "iter" => Len(yielded.Iter) = Len(Preorder(miniscript)) + MaxCallsAfterEnd
        /\ \A i \in 1..Len(Preorder(miniscript)) :
              /\ ChildIsBranch(Preorder(miniscript)[i])
              /\ branches(Preorder(miniscript)[i]) = RefChildren(Preorder(miniscript)[i])

\* next was called twice more after the six nodes of an or_i over an and_v
\* and a c: had been returned
C27_Witness ==
    /\ pc = "iter_pk"
    /\ miniscript.node = "OrI"
    /\ Len(Items(yielded.Iter)) = 6
    /\ Items(yielded.Iter)[5].node = "Check"
    /\ Len(yielded.Iter) = 6 + MaxCallsAfterEnd
    /\ ~yielded.Iter[Len(yielded.Iter)].some

-----------------------------------------------------------------------------
(* The MultiA arm of the key iterators                                     *)

\* the leaf keys of ks[0], ks[1], .., each KeyExpr once and in index order
MultiALeaves(ks) == Flatten([i \in 1..Len(ks) |-> Leaves(ks[i])])

\* C28: for a MultiA(_, ks) node each of PkIter, PkhIter and PkPkhIter yields
\* the concatenation of the leaf keys of ks[0], .., ks[|ks|-1] in index order
\* (hashed for PkhIter), no ks[i] skipped or visited twice, also when some
\* ks[i] yields no key; the or_b(pk(musig(A1,A2)),a:multi_a(..)) example
\* yields A1, A2, B, C, D, E.
C28_MultiAKeys ==
    pc = "done" /\ miniscript # NONE =>
        /\ miniscript.node = "MultiA" =>
               LET leaves == MultiALeaves(miniscript.keys) IN
               /\ Items(yielded.PkIter) = leaves
               /\ Items(yielded.PkhIter) = [i \in 1..Len(leaves) |-> to_pubkeyhash(leaves[i])]
               /\ Items(yielded.PkPkhIter) = PlainItems(leaves)
        /\ (miniscript \in ExampleScripts /\ miniscript.node2.node1.node = "MultiA") =>
               Items(yielded.PkIter) = <<"A1", "A2", "B", "C", "D", "E">>

-----------------------------------------------------------------------------
(* check_timelocks on disjunctions                                         *)

\* the children of an Or or a Threshold
LockChildren(p) ==
    IF p.tag = "Or" THEN [i \in 1..Len(p.subs) |-> p.subs[i][2]] ELSE p.subs

-----------------------------------------------------------------------------
(* The state of BaseIter                                                   *)

\* the BaseIter at the start of each pass of the loop of one call of next
RECURSIVE PassStates(_, _)
PassStates(kind, b) ==
    LET pass == LoopPass(kind, b) IN
    <<b>> \o (IF pass.continue THEN PassStates(kind, pass.iter) ELSE <<>>)

\* the PkK and MultiA arms read the inner iterator of the state they start in
KeyNodeReady(b) ==
    (b.curr_node.some /\ b.curr_node.v.node \in {"PkK", "MultiA"}) =>
        /\ b.musig_iter.some
        /\ b.multi_a_len
               = Some(IF b.curr_node.v.node = "PkK" THEN 1 ELSE Len(b.curr_node.v.keys))
        /\ b.key_index < b.multi_a_len.v

\* key_index is 0 in the state that follows a change of the current node
IndexReset(bs) ==
    \A i \in 1..(Len(bs) - 1) :
        (bs[i + 1].node_iter # bs[i].node_iter \/ bs[i + 1].curr_node # bs[i].curr_node) =>
            bs[i + 1].key_index = 0

KeyIterState(kind, b, ys) ==
    /\ \A i \in 1..Len(PassStates(kind, b)) : KeyNodeReady(PassStates(kind, b)[i])
    /\ IndexReset(PassStates(kind, b) \o <<KeyIterNext(kind, b).iter>>)
    /\ (\E i \in 1..Len(ys) : ~ys[i].some) =>
           /\ ~b.curr_node.some
           /\ KeyIterNext(kind, b) = [iter |-> b, item |-> None]
           /\ NoneForever(ys)

\* C30: in every state reached by constructing PkIter, PkhIter or PkPkhIter
\* and calling next, a current node PkK or MultiA has the inner iterator and
\* multi_a_len set (1 for PkK, |ks| for MultiA) and key_index < multi_a_len
\* when the inner iterator is read; key_index is 0 after each change of the
\* current node; and after next has returned None the current node stays
\* None and every later call returns None.
C30_KeyIterState ==
    miniscript # NONE =>
        /\ KeyIterState("PkIter", pk_iter, yielded.PkIter)
        /\ KeyIterState("PkhIter", pkh_iter, yielded.PkhIter)
        /\ KeyIterState("PkPkhIter", pk_pkh_iter, yielded.PkPkhIter)

====
